---- MODULE Spec2Model ----
(***************************************************************************)
(* Model of the Erik calculator core: the operator registry (ops.rs), the  *)
(* shift-reduce expression parser and the tree-walking evaluator (expr.rs) *)
(* and the line loop that defines functions or prints values (main.rs).    *)
(*                                                                         *)
(* The token stream of a line is the state of the Peekable<Tokenizer>; the *)
(* native call stacks of parse and of eval are explicit sequences of       *)
(* activation records.  Numbers are integers; a formatted message is the   *)
(* tuple of its pieces.                                                    *)
(***************************************************************************)
EXTENDS Integers, Sequences, FiniteSets, TLC

VARIABLES
    the_tokenizer,  \* the Tokenizer of a run of the tokenizer alone
    program,    \* history: the lines given to the process, never changed
    input,      \* lines not yet read by main's loop
    line,       \* tokens of the line given to evaluate_line / do_parse
    tokens,     \* the Peekable<Tokenizer>: tokens not yet consumed
    pstack,     \* activations of parse(), innermost last
    pres,       \* Option<Result> of the outermost parse() call
    estack,     \* activations of eval(), innermost last
    eres,       \* Option<Result> handed back by the last finished eval()
    context,    \* Context.functions: name -> Function
    defined,    \* history: the (name, function) pairs inserted, in order
    output,     \* history: what evaluate_line printed or reported, in order
    pc          \* position of main / evaluate_line

vars == <<the_tokenizer, program, input, line, tokens, pstack, pres, estack, eres, context, defined, output, pc>>

----------------------------------------------------------------------------
(* Option and Result values *)

None == [some |-> FALSE]
Some(v) == [some |-> TRUE, value |-> v]

Ok(v) == [kind |-> "Ok", value |-> v]
Err(message) == [kind |-> "Err", error |-> message]
\* an abort of the process (index out of bounds, unwrap of None)
Panic(where) == [kind |-> "Panic", at |-> where]

\* format!: a message is the tuple of its pieces, literal text and displayed values
str(s) == [str |-> s]
num(n) == [num |-> n]

Last(s) == s[Len(s)]
Front(s) == SubSeq(s, 1, Len(s) - 1)

----------------------------------------------------------------------------
(* ops.rs: the operator registry *)

Precedence ==
    << "None", "Brace", "Terminator", "Assign", "Ternary", "LogicalOr", "LogicalAnd",
       "BinaryOr", "BinaryXor", "BinaryAnd", "CompareEq", "CompareDiff", "Shift",
       "Addition", "Multiply", "Unary", "Power" >>

\* `precedence as u32`: the position of the variant in the enum, from 0
\* the enum with Multiply declared before Addition
as_u32_misordered(precedence) ==
    LET i == CHOOSE k \in 1..Len(Precedence) : Precedence[k] = precedence
    IN  CASE precedence = "Addition" -> i
          [] precedence = "Multiply" -> i - 2
          [] OTHER -> i - 1

as_u32(precedence) == (CHOOSE i \in 1..Len(Precedence) : Precedence[i] = precedence) - 1

make_op(name, precedence, arity, is_right_associative, function) ==
    [name |-> name, precedence |-> precedence, arity |-> arity,
     is_right_associative |-> is_right_associative, function |-> function]

make_op_0(name, precedence) == make_op(name, precedence, 0, FALSE, "Nullary")
make_op_1(name, precedence) == make_op(name, precedence, 1, FALSE, "Unary")
make_op_2(name, precedence) == make_op(name, precedence, 2, FALSE, "Binary")
make_op_lazy(name, precedence, arity) == make_op(name, precedence, arity, FALSE, "Lazy")
make_op_invalid(name, precedence, arity, is_right_associative) ==
    make_op(name, precedence, arity, is_right_associative, "Invalid")

OPERATORS ==
    << make_op_invalid("(", "Brace", 0, FALSE),
       make_op_invalid(")", "Brace", 0, FALSE),
       make_op_invalid("=", "Assign", 2, FALSE),
       make_op_invalid("?", "Ternary", 2, TRUE),
       make_op_invalid(":", "Ternary", 2, TRUE),
       make_op_lazy("||", "LogicalOr", 2),
       make_op_lazy("&&", "LogicalAnd", 2),
       make_op_1("!", "Unary"),
       make_op_2("|", "BinaryOr"),
       make_op_2("^^", "BinaryXor"),
       make_op_2("&", "BinaryAnd"),
       make_op_2("<<", "Shift"),
       make_op_2(">>", "Shift"),
       make_op_2(">>>", "Shift"),
       make_op_1("~", "Unary"),
       make_op_2("==", "CompareEq"),
       make_op_2("!=", "CompareEq"),
       make_op_2("<", "CompareDiff"),
       make_op_2(">", "CompareDiff"),
       make_op_2("<=", "CompareDiff"),
       make_op_2(">=", "CompareDiff"),
       make_op_2("+", "Addition"),
       make_op_2("-", "Addition"),
       make_op_2("*", "Multiply"),
       make_op_2("/", "Multiply"),
       make_op_2("%", "Multiply"),
       make_op_2("^", "Power"),
       make_op_2("max", "None"),
       make_op_2("min", "None"),
       make_op_1("sqrt", "None"),
       make_op_1("exp", "None"),
       make_op_1("ln", "None"),
       make_op_1("log", "None"),
       make_op_1("log2", "None"),
       make_op_1("abs", "None"),
       make_op_1("ceil", "None"),
       make_op_1("floor", "None"),
       make_op_1("round", "None"),
       make_op_1("sin", "None"),
       make_op_1("cos", "None"),
       make_op_1("tan", "None"),
       make_op_1("sinh", "None"),
       make_op_1("cosh", "None"),
       make_op_1("tanh", "None"),
       make_op_1("asin", "None"),
       make_op_1("acos", "None"),
       make_op_1("atan", "None"),
       make_op_1("asinh", "None"),
       make_op_1("acosh", "None"),
       make_op_1("atanh", "None"),
       make_op_1("i8", "None"),
       make_op_1("u8", "None"),
       make_op_1("i16", "None"),
       make_op_1("u16", "None"),
       make_op_1("i32", "None"),
       make_op_1("u32", "None"),
       make_op_0("e", "None"),
       make_op_0("pi", "None") >>

NEGATE == make_op_1("-", "Unary")
TERNARY == make_op_lazy("?:", "Ternary", 3)
TERMINATOR == make_op_invalid("{arnie}", "Terminator", 0, FALSE)

\* linear search: the first entry of that name
find_operator(opname) ==
    IF \E i \in 1..Len(OPERATORS) : OPERATORS[i].name = opname
    THEN Some(OPERATORS[CHOOSE i \in 1..Len(OPERATORS) :
                  /\ OPERATORS[i].name = opname
                  /\ \A j \in 1..(i - 1) : OPERATORS[j].name # opname])
    ELSE None

----------------------------------------------------------------------------
(* expr.rs: expression trees *)

Constant(value) == [kind |-> "Constant", value |-> value]
Operator(op, args) == [kind |-> "Operator", op |-> op, args |-> args]
Function(name, args) == [kind |-> "Function", name |-> name, args |-> args]

(* tokens.rs: tokens *)

Number(value) == [type |-> "Number", number |-> value]
Text(value) == [type |-> "Text", text |-> value]
OperatorToken(op) == [type |-> "Operator", op |-> op]
\* an Err item of the token iterator
TokenErr(message) == [type |-> "Err", error |-> message]

Op(name) == OperatorToken(find_operator(name).value)

----------------------------------------------------------------------------
(* tokens.rs: Tokenizer. A char is a string of one character, a &str of the
   input is its byte offset and byte length. The string "U+00E9" stands for the
   one char of that code point, a letter of two bytes in UTF-8 *)

\* Token::Integer(u64): the value is the sequence of its bits, the highest first,
\* without leading zeros
Integer(value) == [type |-> "Integer", integer |-> value]

\* str::chars of the operator names
chars ==
    "(" :> <<"(">> @@
    ")" :> <<")">> @@
    "=" :> <<"=">> @@
    "?" :> <<"?">> @@
    ":" :> <<":">> @@
    "||" :> <<"|", "|">> @@
    "&&" :> <<"&", "&">> @@
    "!" :> <<"!">> @@
    "|" :> <<"|">> @@
    "^^" :> <<"^", "^">> @@
    "&" :> <<"&">> @@
    "<<" :> <<"<", "<">> @@
    ">>" :> <<">", ">">> @@
    ">>>" :> <<">", ">", ">">> @@
    "~" :> <<"~">> @@
    "==" :> <<"=", "=">> @@
    "!=" :> <<"!", "=">> @@
    "<" :> <<"<">> @@
    ">" :> <<">">> @@
    "<=" :> <<"<", "=">> @@
    ">=" :> <<">", "=">> @@
    "+" :> <<"+">> @@
    "-" :> <<"-">> @@
    "*" :> <<"*">> @@
    "/" :> <<"/">> @@
    "%" :> <<"%">> @@
    "^" :> <<"^">> @@
    "max" :> <<"m", "a", "x">> @@
    "min" :> <<"m", "i", "n">> @@
    "sqrt" :> <<"s", "q", "r", "t">> @@
    "exp" :> <<"e", "x", "p">> @@
    "ln" :> <<"l", "n">> @@
    "log" :> <<"l", "o", "g">> @@
    "log2" :> <<"l", "o", "g", "2">> @@
    "abs" :> <<"a", "b", "s">> @@
    "ceil" :> <<"c", "e", "i", "l">> @@
    "floor" :> <<"f", "l", "o", "o", "r">> @@
    "round" :> <<"r", "o", "u", "n", "d">> @@
    "sin" :> <<"s", "i", "n">> @@
    "cos" :> <<"c", "o", "s">> @@
    "tan" :> <<"t", "a", "n">> @@
    "sinh" :> <<"s", "i", "n", "h">> @@
    "cosh" :> <<"c", "o", "s", "h">> @@
    "tanh" :> <<"t", "a", "n", "h">> @@
    "asin" :> <<"a", "s", "i", "n">> @@
    "acos" :> <<"a", "c", "o", "s">> @@
    "atan" :> <<"a", "t", "a", "n">> @@
    "asinh" :> <<"a", "s", "i", "n", "h">> @@
    "acosh" :> <<"a", "c", "o", "s", "h">> @@
    "atanh" :> <<"a", "t", "a", "n", "h">> @@
    "i8" :> <<"i", "8">> @@
    "u8" :> <<"u", "8">> @@
    "i16" :> <<"i", "1", "6">> @@
    "u16" :> <<"u", "1", "6">> @@
    "i32" :> <<"i", "3", "2">> @@
    "u32" :> <<"u", "3", "2">> @@
    "e" :> <<"e">> @@
    "pi" :> <<"p", "i">>

RECURSIVE Join(_)
\* the string of a sequence of chars
Join(s) == IF s = <<>> THEN "" ELSE Head(s) \o Join(Tail(s))

len_utf8(char) == IF char = "U+00E9" THEN 2 ELSE 1

is_whitespace(char) == char \in {" "}

DecimalDigits == <<"0", "1", "2", "3", "4", "5", "6", "7", "8", "9">>

is_ascii_digit(char) == \E i \in DOMAIN DecimalDigits : DecimalDigits[i] = char

is_alphabetic(char) ==
    char \in {"a", "b", "c", "d", "e", "f", "g", "h", "i", "j", "k", "l", "m", "n", "o", "p",
              "q", "r", "s", "t", "u", "v", "w", "x", "y", "z",
              "A", "B", "C", "D", "E", "F", "U+00E9"}

\* char::to_digit for base 2 and base 16
to_digit(char, base) ==
    LET lower == DecimalDigits \o <<"a", "b", "c", "d", "e", "f">>
        upper == DecimalDigits \o <<"A", "B", "C", "D", "E", "F">>
    IN  IF \E d \in 1..base : char \in {lower[d], upper[d]}
        THEN Some((CHOOSE d \in 1..base : char \in {lower[d], upper[d]}) - 1)
        ELSE None

\* the byte offset of the char after the first n chars of input
Bytes(input_str, n) ==
    n + Cardinality({i \in 1..n : len_utf8(input_str[i]) = 2})

is_char_boundary(input_str, offset) ==
    \E n \in 0..Len(input_str) : Bytes(input_str, n) = offset

\* &start_slice[.. start_slice.len() - rest_len]: the subtraction and the
\* slicing both abort when out of range
slice_until(input_str, start_slice, rest_len) ==
    LET end == start_slice.len - rest_len IN
    IF end < 0
    THEN Panic("attempt to subtract with overflow")
    ELSE IF \/ end > start_slice.len
            \/ ~is_char_boundary(input_str, start_slice.from + end)
         THEN Panic("byte index out of range or not a char boundary")
         ELSE LET first == CHOOSE n \in 0..Len(input_str) :
                               Bytes(input_str, n) = start_slice.from
                  last == CHOOSE n \in 0..Len(input_str) :
                              Bytes(input_str, n) = start_slice.from + end
              IN  Ok(SubSeq(input_str, first + 1, last))

\* iterator.as_str() measured in chars where the code measures bytes
as_str_chars(t) ==
    [from |-> t.iterator, len |-> Len(t.input) - t.iterator]

\* iterator.as_str()
as_str(t) ==
    [from |-> Bytes(t.input, t.iterator),
     len |-> Bytes(t.input, Len(t.input)) - Bytes(t.input, t.iterator)]

\* Tokenizer::new
new(input_str) ==
    [input |-> input_str, iterator |-> 0,
     remainder |-> [from |-> 0, len |-> Bytes(input_str, Len(input_str))],
     peeked |-> None]

\* iterator.next()
chars_next(t) ==
    IF t.iterator < Len(t.input)
    THEN [item |-> Some(t.input[t.iterator + 1]), tokenizer |-> [t EXCEPT !.iterator = @ + 1]]
    ELSE [item |-> None, tokenizer |-> t]

\* a get that leaves the remainder as it was when it returns the peeked char
get_keeping_remainder(t) ==
    IF t.peeked.some
    THEN [item |-> t.peeked, tokenizer |-> [t EXCEPT !.peeked = None]]
    ELSE LET r == chars_next(t) IN
         [item |-> r.item, tokenizer |-> [r.tokenizer EXCEPT !.remainder = as_str(r.tokenizer)]]

get(t) ==
    LET r == IF t.peeked.some
             THEN [item |-> t.peeked, tokenizer |-> [t EXCEPT !.peeked = None]]
             ELSE chars_next(t)
    IN  [item |-> r.item, tokenizer |-> [r.tokenizer EXCEPT !.remainder = as_str(r.tokenizer)]]

peek(t) ==
    LET r == IF ~t.peeked.some
             THEN LET n == chars_next(t) IN [n.tokenizer EXCEPT !.peeked = n.item]
             ELSE t
    IN  [item |-> r.peeked, tokenizer |-> r]

\* the value of a run of decimal digits
RECURSIVE digits_value(_)
digits_value(s) ==
    IF s = <<>>
    THEN 0
    ELSE 10 * digits_value(Front(s))
         + (CHOOSE d \in 0..9 : DecimalDigits[d + 1] = Last(s))

RECURSIVE pow10(_)
pow10(k) == IF k = 0 THEN 1 ELSE 10 * pow10(k - 1)

RECURSIVE decimal(_, _)
\* mantissa * 10^exponent: the integer where it is one below 10^9, and
\* otherwise the pair with a mantissa that does not end in 0
decimal(mantissa, exponent) ==
    IF mantissa = 0
    THEN 0
    ELSE IF mantissa % 10 = 0
         THEN decimal(mantissa \div 10, exponent + 1)
         ELSE IF exponent >= 0 /\ exponent <= 4 /\ mantissa < 100000
              THEN mantissa * pow10(exponent)
              ELSE [mantissa |-> mantissa, exponent |-> exponent]

\* <f64 as FromStr>::from_str on a slice of digits, periods, e and -: digits
\* with at most one period among them, at least one digit, and an optional
\* exponent of e, an optional sign and at least one digit
parse_f64(slice) ==
    LET is_digits(s) == \A i \in DOMAIN s : is_ascii_digit(s[i])
        find(s, char) == IF \E i \in DOMAIN s : s[i] = char
                         THEN CHOOSE i \in DOMAIN s :
                                  s[i] = char /\ \A j \in 1..(i - 1) : s[j] # char
                         ELSE 0
        e == find(slice, "e")
        number == IF e = 0 THEN slice ELSE SubSeq(slice, 1, e - 1)
        exp == IF e = 0 THEN <<>> ELSE SubSeq(slice, e + 1, Len(slice))
        dot == find(number, ".")
        int == IF dot = 0 THEN number ELSE SubSeq(number, 1, dot - 1)
        frac == IF dot = 0 THEN <<>> ELSE SubSeq(number, dot + 1, Len(number))
        negative == exp # <<>> /\ Head(exp) = "-"
        exp_digits == IF negative THEN Tail(exp) ELSE exp
    IN  IF /\ is_digits(int)
           /\ is_digits(frac)
           /\ Len(int) + Len(frac) >= 1
           /\ e # 0 => (exp_digits # <<>> /\ is_digits(exp_digits))
        THEN Ok(decimal(digits_value(int \o frac),
                        (IF negative THEN 0 - digits_value(exp_digits)
                                     ELSE digits_value(exp_digits)) - Len(frac)))
        ELSE Err(<<>>)

RECURSIVE next(_)

RECURSIVE read_decimal(_, _)
\* Reads a decimal floating point constant.
read_decimal(t, start_slice) ==
    LET p == peek(t) IN
    IF p.item.some /\ (is_ascii_digit(p.item.value) \/ p.item.value = ".")
    THEN read_decimal(get(p.tokenizer).tokenizer, start_slice)
    ELSE IF p.item = Some("e")
         THEN LET g == get(p.tokenizer)
                  q == peek(g.tokenizer)
              IN  IF q.item = Some("-")
                  THEN LET n == next(q.tokenizer) IN
                       IF n.item.some /\ n.item.value.kind = "Panic"
                       THEN [result |-> n.item.value, tokenizer |-> n.tokenizer]
                       ELSE read_decimal(n.tokenizer, start_slice)
                  ELSE read_decimal(q.tokenizer, start_slice)
         ELSE LET slice == slice_until(t.input, start_slice, p.tokenizer.remainder.len) IN
              IF slice.kind = "Panic"
              THEN [result |-> slice, tokenizer |-> p.tokenizer]
              ELSE LET value == parse_f64(slice.value) IN
                   [result |-> IF value.kind = "Ok"
                               THEN Ok(Number(value.value))
                               ELSE Err(<<str("Invalid numeric constant '"),
                                          str(Join(slice.value)), str("'")>>),
                    tokenizer |-> p.tokenizer]

\* the bits of a digit of the base, and a u64 without its leading zeros
digit_bits(digit, base) ==
    IF base = 2
    THEN <<digit>>
    ELSE <<(digit \div 8) % 2, (digit \div 4) % 2, (digit \div 2) % 2, digit % 2>>

RECURSIVE u64(_)
u64(bits) == IF bits # <<>> /\ Head(bits) = 0 THEN u64(Tail(bits)) ELSE bits

\* checked_mul of a 32 bit accumulator
checked_mul_u32(value, base) ==
    IF value # <<>> /\ Len(value) + Len(digit_bits(0, base)) > 32
    THEN None
    ELSE Some(u64(value \o digit_bits(0, base)))

\* value.checked_mul(base): None when the product has more than 64 bits
checked_mul(value, base) ==
    IF value # <<>> /\ Len(value) + Len(digit_bits(0, base)) > 64
    THEN None
    ELSE Some(u64(value \o digit_bits(0, base)))

RECURSIVE read_integer(_, _, _)
\* Reads an integer constant using binary or hexadecimal number base.
read_integer(t, base, value) ==
    LET p == peek(t) IN
    IF p.item.some /\ to_digit(p.item.value, base).some
    THEN LET g == get(p.tokenizer)
             digit == to_digit(p.item.value, base).value
             new_value == checked_mul(value, base)
         IN  IF ~new_value.some
             THEN [result |-> Err(<<str("Base "), num(base),
                                    str(" constant overflowed 64 bit range")>>),
                   tokenizer |-> g.tokenizer]
             ELSE read_integer(g.tokenizer, base,
                               u64(SubSeq(new_value.value, 1,
                                          Len(new_value.value) - Len(digit_bits(0, base)))
                                   \o digit_bits(digit, base)))
    ELSE [result |-> Ok(Integer(value)), tokenizer |-> p.tokenizer]

\* Reads a numeric constant.
read_number(t) ==
    LET start_slice == t.remainder
        g == get(t)
        p == peek(g.tokenizer)
    IN  IF g.item = Some("0") /\ p.item = Some("b")
        THEN read_integer(get(p.tokenizer).tokenizer, 2, <<>>)
        ELSE IF g.item = Some("0") /\ p.item = Some("x")
             THEN read_integer(get(p.tokenizer).tokenizer, 16, <<>>)
             ELSE read_decimal(IF g.item = Some("0") THEN p.tokenizer ELSE g.tokenizer,
                               start_slice)

\* the Text token of a slice, or the abort of taking it
text_token(slice, t) ==
    [result |-> IF slice.kind = "Ok" THEN Ok(Text(Join(slice.value))) ELSE slice,
     tokenizer |-> t]

RECURSIVE read_bareword_from(_, _)
read_bareword_from(t, start_slice) ==
    LET p == peek(t) IN
    IF p.item.some /\ (is_alphabetic(p.item.value) \/ p.item.value = "_")
    THEN read_bareword_from(get(p.tokenizer).tokenizer, start_slice)
    ELSE text_token(slice_until(t.input, start_slice, p.tokenizer.remainder.len), p.tokenizer)

\* Reads a alphabetical bareword.
read_bareword(t) == read_bareword_from(t, t.remainder)

RECURSIVE read_quoted_from(_, _, _, _)
RECURSIVE read_quoted_from_through(_, _, _, _)
\* the loop of read_quoted with the slice taken up to the remainder
read_quoted_from_through(t, quote, start_slice, end_slice) ==
    LET g == get(t) IN
    IF g.item.some /\ g.item.value # quote
    THEN read_quoted_from(g.tokenizer, quote, start_slice, g.tokenizer.remainder)
    ELSE text_token(slice_until(t.input, start_slice, g.tokenizer.remainder.len), g.tokenizer)

\* the loop of read_quoted (lines 194-200)
read_quoted_from(t, quote, start_slice, end_slice) ==
    LET g == get(t) IN
    IF g.item.some /\ g.item.value # quote
    THEN read_quoted_from(g.tokenizer, quote, start_slice, g.tokenizer.remainder)
    ELSE text_token(slice_until(t.input, start_slice, end_slice.len), g.tokenizer)

\* Reads a quoted string.
read_quoted(t) ==
    LET g == get(t) IN
    IF ~g.item.some
    THEN [result |-> Panic("called Option::unwrap() on a None value"), tokenizer |-> g.tokenizer]
    ELSE read_quoted_from(g.tokenizer, g.item.value, g.tokenizer.remainder, g.tokenizer.remainder)

\* Reads a single character.
read_unknown_character(t) ==
    LET g == get(t) IN
    text_token(slice_until(t.input, t.remainder, g.tokenizer.remainder.len), g.tokenizer)

starts_with(name, prefix) ==
    /\ Len(prefix) <= Len(chars[name])
    /\ SubSeq(chars[name], 1, Len(prefix)) = prefix

could_be_operator(opname) ==
    \E i \in DOMAIN OPERATORS : starts_with(OPERATORS[i].name, opname)

\* lines 232-235
operator_named(opname) ==
    LET found == find_operator(opname) IN
    IF found.some THEN Ok(Some(OperatorToken(found.value))) ELSE Ok(None)

\* lines 230-235: the characters consumed by get name an operator or do not
match_operator(t, start_slice) ==
    LET opname == slice_until(t.input, start_slice, t.remainder.len) IN
    [result |-> IF opname.kind = "Ok" THEN operator_named(Join(opname.value)) ELSE opname,
     tokenizer |-> t]

RECURSIVE read_operator_from(_, _)

\* lines 225-227: the loop ends when peek finds the end of the input
read_operator_peeked(p, start_slice) ==
    IF p.item.some
    THEN read_operator_from(p.tokenizer, start_slice)
    ELSE match_operator(p.tokenizer, start_slice)

\* the loop of lines 222-228 left after its first get
read_operator_from_once(t, start_slice) ==
    LET candidate == slice_until(t.input, start_slice, as_str(t).len) IN
    IF candidate.kind = "Panic"
    THEN [result |-> candidate, tokenizer |-> t]
    ELSE IF could_be_operator(candidate.value)
         THEN match_operator(peek(get(t).tokenizer).tokenizer, start_slice)
         ELSE match_operator(t, start_slice)

\* the while loop of lines 222-228
read_operator_from(t, start_slice) ==
    LET candidate == slice_until(t.input, start_slice, as_str(t).len) IN
    IF candidate.kind = "Panic"
    THEN [result |-> candidate, tokenizer |-> t]
    ELSE IF could_be_operator(candidate.value)
         THEN read_operator_peeked(peek(get(t).tokenizer), start_slice)
         ELSE match_operator(t, start_slice)

\* Attempts to match against the set of known operators.
read_operator(t) == read_operator_from(t, t.remainder)

RECURSIVE skip_whitespace(_)
\* lines 27-29
skip_whitespace(t) ==
    LET p == peek(t) IN
    IF p.item.some /\ is_whitespace(p.item.value)
    THEN skip_whitespace(get(p.tokenizer).tokenizer)
    ELSE p.tokenizer

\* lines 49-54: the operator that was read, or else an unknown single character
operator_or_unknown(operator) ==
    IF operator.result.kind = "Panic"
    THEN [item |-> Some(operator.result), tokenizer |-> operator.tokenizer]
    ELSE IF operator.result.value.some
         THEN [item |-> Some(Ok(operator.result.value.value)),
               tokenizer |-> operator.tokenizer]
         ELSE LET unknown(r) == [item |-> Some(r.result), tokenizer |-> r.tokenizer]
              IN  unknown(read_unknown_character(operator.tokenizer))

\* Iterator::next: None at the end of the input, or Some of a token, of an
\* error message or of an abort
next(t) ==
    LET some(r) == [item |-> Some(r.result), tokenizer |-> r.tokenizer]
        match(p) ==
            IF ~p.item.some
            THEN [item |-> None, tokenizer |-> p.tokenizer]
            ELSE IF is_ascii_digit(p.item.value) \/ p.item.value = "."
                 THEN some(read_number(p.tokenizer))
                 ELSE IF is_alphabetic(p.item.value) \/ p.item.value = "_"
                      THEN some(read_bareword(p.tokenizer))
                      ELSE IF p.item.value = "\"" \/ p.item.value = "'"
                           THEN some(read_quoted(p.tokenizer))
                           ELSE operator_or_unknown(read_operator(p.tokenizer))
    IN  match(peek(skip_whitespace(t)))

----------------------------------------------------------------------------
(* tokens.rs: a run of the tokenizer over one string, one action per call of next *)

not_tokenizing ==
    UNCHANGED <<program, input, line, pstack, pres, estack, eres, context, defined>>

\* next returns a token (an abort ends the process)
TokenizerNext ==
    /\ pc = "tokenize"
    /\ \E n \in {next(the_tokenizer)} :
       /\ n.item.some
       /\ n.item.value.kind # "Err"
       /\ the_tokenizer' = n.tokenizer
       /\ IF n.item.value.kind = "Ok"
          THEN /\ tokens' = Append(tokens, n.item.value.value)
               /\ UNCHANGED <<output, pc>>
          ELSE /\ output' = Append(output, n.item.value)
               /\ pc' = "aborted"
               /\ UNCHANGED tokens
    /\ not_tokenizing

\* next returns an error message
TokenizerError ==
    /\ pc = "tokenize"
    /\ \E n \in {next(the_tokenizer)} :
       /\ n.item.some
       /\ n.item.value.kind = "Err"
       /\ the_tokenizer' = n.tokenizer
       /\ tokens' = Append(tokens, TokenErr(n.item.value.error))
    /\ UNCHANGED <<output, pc>>
    /\ not_tokenizing

\* next returns None
TokenizerEnd ==
    /\ pc = "tokenize"
    /\ \E n \in {next(the_tokenizer)} :
       /\ ~n.item.some
       /\ the_tokenizer' = n.tokenizer
    /\ pc' = "tokenized"
    /\ UNCHANGED <<tokens, output>>
    /\ not_tokenizing

NextTokenizer ==
    \/ TokenizerNext
    \/ TokenizerError
    \/ TokenizerEnd

----------------------------------------------------------------------------
(* expr.rs: Parser *)

NewParser == [current |-> None, stack |-> <<>>]

\* lines 75-83 without the test of line 76
push_constant_overwriting(parser, value) ==
    Ok([parser EXCEPT !.current = Some(Constant(value))])

push_constant(parser, value) ==
    IF parser.current.some
    THEN Err(<<str("Invalid expression: expecting operator but got '"), num(value), str("'.")>>)
    ELSE Ok([parser EXCEPT !.current = Some(Constant(value))])

\* lines 94-106 without the test of line 96
finish_symbol_unchecked(parser, symbol, args) ==
    LET found == find_operator(symbol) IN
    IF found.some
    THEN Ok([parser EXCEPT !.current = Some(Operator(found.value, args))])
    ELSE Ok([parser EXCEPT !.current = Some(Function(symbol, args))])

\* lines 94-106 with < for != in line 96
finish_symbol_at_least(parser, symbol, args) ==
    LET found == find_operator(symbol) IN
    IF found.some
    THEN IF Len(args) < found.value.arity
         THEN Err(<<str("Wrong number of arguments for "), str(found.value.name), str("(): expected "), num(found.value.arity), str(" but got "), num(Len(args)), str(".")>>)
         ELSE Ok([parser EXCEPT !.current = Some(Operator(found.value, args))])
    ELSE Ok([parser EXCEPT !.current = Some(Function(symbol, args))])

\* lines 94-106 with the constants of the registry read as names of functions
finish_symbol_constant_names(parser, symbol, args) ==
    LET found == find_operator(symbol) IN
    IF found.some /\ found.value.arity # 0
    THEN IF Len(args) # found.value.arity
         THEN Err(<<str("Wrong number of arguments for "), str(found.value.name), str("(): expected "), num(found.value.arity), str(" but got "), num(Len(args)), str(".")>>)
         ELSE Ok([parser EXCEPT !.current = Some(Operator(found.value, args))])
    ELSE Ok([parser EXCEPT !.current = Some(Function(symbol, args))])

\* the part of push_symbol after parse_arguments has returned args
finish_symbol(parser, symbol, args) ==
    LET found == find_operator(symbol) IN
    IF found.some
    THEN IF Len(args) # found.value.arity
         THEN Err(<<str("Wrong number of arguments for "), str(found.value.name), str("(): expected "), num(found.value.arity), str(" but got "), num(Len(args)), str(".")>>)
         ELSE Ok([parser EXCEPT !.current = Some(Operator(found.value, args))])
    ELSE Ok([parser EXCEPT !.current = Some(Function(symbol, args))])

\* lines 199-214 without the test of line 202
binary_or_ternary_any(op, x, y) ==
    IF op.name = "?" /\ y.kind = "Operator"
    THEN IF Len(y.args) < 2
         THEN Panic("binary_or_ternary: remove from empty Vec")
         ELSE Ok(Operator(TERNARY, <<x, y.args[1], y.args[2]>>))
    ELSE Ok(Operator(op, <<x, y>>))

\* y_args.remove(0) twice: aborts when y has fewer than two children
binary_or_ternary(op, x, y) ==
    IF op.name = "?" /\ y.kind = "Operator" /\ y.op.name = ":"
    THEN IF Len(y.args) < 2
         THEN Panic("binary_or_ternary: remove from empty Vec")
         ELSE Ok(Operator(TERNARY, <<x, y.args[1], y.args[2]>>))
    ELSE Ok(Operator(op, <<x, y>>))

\* lines 124-134 without the increment of line 132
stack_precedence_unbiased(stack_op) == as_u32(stack_op.precedence)

\* the precedence the stack operator is compared with (lines 124-134)
stack_precedence(stack_op) ==
    IF stack_op.arity # 1 /\ ~stack_op.is_right_associative
    THEN as_u32(stack_op.precedence) + 1
    ELSE as_u32(stack_op.precedence)

\* line 115 looking at the stack instead of the current value
substitute_negate_by_stack(parser, op) ==
    IF op.name = "-" /\ parser.stack = <<>> THEN NEGATE ELSE op

\* Turn binary subtraction into unary negation if there is no current value.
substitute_negate(parser, op) ==
    IF op.name = "-" /\ ~parser.current.some THEN NEGATE ELSE op

\* how an iteration of the while loop ends: the loop goes on, the loop is left,
\* or push_operator returns Ok(()) from inside it
Continue(parser) == [kind |-> "Continue", value |-> parser]
Break(parser) == [kind |-> "Break", value |-> parser]
Return(parser) == [kind |-> "Return", value |-> parser]

\* one reduction that does not look at the value stored with a unary operator
reduce_ignoring_left(parser, op) ==
    LET stack_op == Last(parser.stack).op
        stack_value == Last(parser.stack).value
        rest == Front(parser.stack)
        current == parser.current
    IN  CASE stack_op.arity = 1 ->
               IF current.some
               THEN Continue([current |-> Some(Operator(stack_op, <<current.value>>)),
                           stack |-> rest])
               ELSE Err(<<str("Invalid expression: unary "), str(stack_op.name), str(" operator is missing an operand.")>>)
          [] stack_op.arity = 2 ->
               IF current.some /\ stack_value.some
               THEN LET node == binary_or_ternary(stack_op, stack_value.value, current.value)
                    IN  IF node.kind = "Ok"
                        THEN Continue([current |-> Some(node.value), stack |-> rest])
                        ELSE node
               ELSE Err(<<str("Invalid expression: binary "), str(stack_op.name), str(" operator is missing an operand.")>>)
          [] OTHER ->
               IF stack_op.name # "(" \/ stack_value.some
               THEN Err(<<str("Invalid expression: unexpected open parenthesis.")>>)
               ELSE IF op.name = ")"
                    THEN IF ~current.some
                         THEN Err(<<str("Invalid expression: unexpected close parenthesis.")>>)
                         ELSE Return([current |-> current, stack |-> rest])
                    ELSE Continue([current |-> current, stack |-> rest])

\* one reduction: the body of the while loop after the pop (lines 141-179)
reduce(parser, op) ==
    LET stack_op == Last(parser.stack).op
        stack_value == Last(parser.stack).value
        rest == Front(parser.stack)
        current == parser.current
    IN  CASE stack_op.arity = 1 ->
               IF current.some /\ ~stack_value.some
               THEN Continue([current |-> Some(Operator(stack_op, <<current.value>>)),
                           stack |-> rest])
               ELSE Err(<<str("Invalid expression: unary "), str(stack_op.name), str(" operator is missing an operand.")>>)
          [] stack_op.arity = 2 ->
               IF current.some /\ stack_value.some
               THEN LET node == binary_or_ternary(stack_op, stack_value.value, current.value)
                    IN  IF node.kind = "Ok"
                        THEN Continue([current |-> Some(node.value), stack |-> rest])
                        ELSE node
               ELSE Err(<<str("Invalid expression: binary "), str(stack_op.name), str(" operator is missing an operand.")>>)
          [] OTHER ->
               IF stack_op.name # "(" \/ stack_value.some
               THEN Err(<<str("Invalid expression: unexpected open parenthesis.")>>)
               ELSE IF op.name = ")"
                    THEN IF ~current.some
                         THEN Err(<<str("Invalid expression: unexpected close parenthesis.")>>)
                         ELSE Return([current |-> current, stack |-> rest])
                    ELSE Continue([current |-> current, stack |-> rest])

RECURSIVE reduce_while(_, _)
\* the while loop of push_operator (lines 123-180)
reduce_while(parser, op) ==
    IF parser.stack = <<>>
    THEN Break(parser)
    ELSE LET stack_op == Last(parser.stack).op IN
         IF stack_op.arity # 1 /\ op.arity = 1
         THEN Break(parser)
         ELSE IF as_u32(op.precedence) >= stack_precedence(stack_op)
              THEN Break(parser)
              ELSE LET r == reduce(parser, op) IN
                   IF r.kind = "Continue" THEN reduce_while(r.value, op) ELSE r

push_operator(parser, token_op) ==
    LET op == substitute_negate(parser, token_op)
        r == IF op.name # "(" THEN reduce_while(parser, op) ELSE Break(parser)
    IN  CASE r.kind = "Return" -> Ok(r.value)
          [] r.kind = "Break" ->
               IF op.name = ")"
               THEN IF r.value.stack = <<>>
                    THEN Err(<<str("Invalid expression: too many close parentheses.")>>)
                    ELSE Ok(r.value)
               ELSE Ok([current |-> None,
                        stack |-> Append(r.value.stack,
                                         [op |-> op, value |-> r.value.current])])
          [] OTHER -> r

peek_operator(tokenizer, opname) ==
    /\ tokenizer # <<>>
    /\ Head(tokenizer).type = "Operator"
    /\ Head(tokenizer).op.name = opname

\* is_finished without the tokenizer.next() of line 240
is_finished_peeking(parser, tokenizer, is_nested) ==
    IF tokenizer # <<>> /\ Head(tokenizer) = Text(",")
    THEN [finished |-> TRUE, tokenizer |-> tokenizer]
    ELSE IF is_nested
         THEN [finished |-> /\ peek_operator(tokenizer, ")")
                            /\ ~\E i \in 1..Len(parser.stack) : parser.stack[i].op.name = "(",
               tokenizer |-> tokenizer]
         ELSE [finished |-> tokenizer = <<>>, tokenizer |-> tokenizer]

RECURSIVE skip_commas(_)
\* the tokens after the commas at their head
skip_commas(tokenizer) ==
    IF tokenizer # <<>> /\ Head(tokenizer) = Text(",")
    THEN skip_commas(Tail(tokenizer))
    ELSE tokenizer

\* is_finished taking a run of commas for one
is_finished_skipping_commas(parser, tokenizer, is_nested) ==
    IF tokenizer # <<>> /\ Head(tokenizer) = Text(",")
    THEN [finished |-> TRUE, tokenizer |-> skip_commas(tokenizer)]
    ELSE IF is_nested
         THEN [finished |-> /\ peek_operator(tokenizer, ")")
                            /\ ~\E i \in 1..Len(parser.stack) : parser.stack[i].op.name = "(",
               tokenizer |-> tokenizer]
         ELSE [finished |-> tokenizer = <<>>, tokenizer |-> tokenizer]

\* is_finished without the look at the stack of line 249: any ) ends an argument
is_finished_at_any_close(parser, tokenizer, is_nested) ==
    IF tokenizer # <<>> /\ Head(tokenizer) = Text(",")
    THEN [finished |-> TRUE, tokenizer |-> Tail(tokenizer)]
    ELSE IF is_nested
         THEN [finished |-> peek_operator(tokenizer, ")"), tokenizer |-> tokenizer]
         ELSE [finished |-> tokenizer = <<>>, tokenizer |-> tokenizer]

\* returns whether the expression has ended and the tokenizer it leaves
is_finished(parser, tokenizer, is_nested) ==
    IF tokenizer # <<>> /\ Head(tokenizer) = Text(",")
    THEN [finished |-> TRUE, tokenizer |-> Tail(tokenizer)]
    ELSE IF is_nested
         THEN [finished |-> /\ peek_operator(tokenizer, ")")
                            /\ ~\E i \in 1..Len(parser.stack) : parser.stack[i].op.name = "(",
               tokenizer |-> tokenizer]
         ELSE [finished |-> tokenizer = <<>>, tokenizer |-> tokenizer]

\* lines 291-303 without the test of line 299
collapse_any_length(parser) ==
    IF ~parser.current.some
    THEN Err(<<str("Invalid expression: unexpected end of input.")>>)
    ELSE LET r == push_operator(parser, TERMINATOR) IN
         IF r.kind # "Ok"
         THEN r
         ELSE IF ~Last(r.value.stack).value.some
              THEN Panic("parse: unwrap of None")
              ELSE Ok(Last(r.value.stack).value.value)

\* parse after its loop: collapse the stack (lines 291-303)
collapse(parser) ==
    IF ~parser.current.some
    THEN Err(<<str("Invalid expression: unexpected end of input.")>>)
    ELSE LET r == push_operator(parser, TERMINATOR) IN
         IF r.kind # "Ok"
         THEN r
         ELSE IF Len(r.value.stack) # 1
              THEN Err(<<str("Invalid expression: unexpected end of input.")>>)
              ELSE IF ~Last(r.value.stack).value.some
                   THEN Panic("parse: unwrap of None")
                   ELSE Ok(Last(r.value.stack).value.value)

----------------------------------------------------------------------------
(* expr.rs: parse, one action per iteration of its loops *)

\* a call of parse(): its Parser, its is_nested argument and, while push_symbol
\* waits in parse_arguments, the symbol and the arguments parsed so far
Activation(is_nested) ==
    [parser |-> NewParser, is_nested |-> is_nested, symbol |-> None, args |-> <<>>]

top == Last(pstack)

InParseLoop == pc = "parse" /\ pstack # <<>> /\ ~top.symbol.some
InArguments == pc = "parse" /\ pstack # <<>> /\ top.symbol.some

finished == is_finished(top.parser, tokens, top.is_nested)

\* parse() returns r: an error goes up through every caller (the ? operator),
\* a tree goes to the caller's argument list or is the outermost result
return_parse(r, tokenizer) ==
    /\ tokens' = tokenizer
    /\ IF r.kind # "Ok" \/ Len(pstack) = 1
       THEN /\ pstack' = <<>>
            /\ pres' = Some(r)
            /\ pc' = "parsed"
       ELSE /\ pstack' = [Front(pstack) EXCEPT ![Len(pstack) - 1].args = Append(@, r.value)]
            /\ UNCHANGED <<pres, pc>>

\* a push_* call returns r inside the loop of parse
continue_parse(r, tokenizer) ==
    IF r.kind = "Ok"
    THEN /\ tokens' = tokenizer
         /\ pstack' = [pstack EXCEPT ![Len(pstack)] =
                          [@ EXCEPT !.parser = r.value, !.symbol = None, !.args = <<>>]]
         /\ UNCHANGED <<pres, pc>>
    ELSE return_parse(r, tokenizer)

not_parsing == UNCHANGED <<the_tokenizer, program, input, line, estack, eres, context, defined, output>>

\* lines 278, 291-303: the loop ends and the stack is collapsed
ParseFinish ==
    /\ InParseLoop
    /\ finished.finished
    /\ return_parse(collapse(top.parser), finished.tokenizer)
    /\ not_parsing

\* line 287: the input runs out inside an expression
ParseEndOfInput ==
    /\ InParseLoop
    /\ ~finished.finished
    /\ tokens = <<>>
    /\ return_parse(Err(<<str("Invalid expression: unexpected end of input.")>>), tokens)
    /\ not_parsing

\* line 281: `token?` on an Err item of the tokenizer
ParseTokenError ==
    /\ InParseLoop
    /\ ~finished.finished
    /\ tokens # <<>>
    /\ Head(tokens).type = "Err"
    /\ return_parse(Err(Head(tokens).error), Tail(tokens))
    /\ not_parsing

PushConstant ==
    /\ InParseLoop
    /\ ~finished.finished
    /\ tokens # <<>>
    /\ Head(tokens).type = "Number"
    /\ continue_parse(push_constant(top.parser, Head(tokens).number), Tail(tokens))
    /\ not_parsing

PushOperator ==
    /\ InParseLoop
    /\ ~finished.finished
    /\ tokens # <<>>
    /\ Head(tokens).type = "Operator"
    /\ continue_parse(push_operator(top.parser, Head(tokens).op), Tail(tokens))
    /\ not_parsing

\* push_symbol up to the loop of parse_arguments (lines 88-92, 220-225)
PushSymbol ==
    /\ InParseLoop
    /\ ~finished.finished
    /\ tokens # <<>>
    /\ Head(tokens).type = "Text"
    /\ LET symbol == Head(tokens).text IN
       IF top.parser.current.some
       THEN return_parse(Err(<<str("Invalid expression: expecting operator but got '"), str(symbol), str("'.")>>), Tail(tokens))
       ELSE IF peek_operator(Tail(tokens), "(")
            THEN /\ tokens' = Tail(Tail(tokens))
                 /\ pstack' = [pstack EXCEPT ![Len(pstack)] =
                                  [@ EXCEPT !.symbol = Some(symbol), !.args = <<>>]]
                 /\ UNCHANGED <<pres, pc>>
            ELSE continue_parse(finish_symbol(top.parser, symbol, <<>>), Tail(tokens))
    /\ not_parsing

\* parse_arguments, lines 225-226: the next argument is parsed by a nested parse
ParseArgument ==
    /\ InArguments
    /\ ~peek_operator(tokens, ")")
    /\ pstack' = Append(pstack, Activation(TRUE))
    /\ UNCHANGED <<tokens, pres, pc>>
    /\ not_parsing

\* parse_arguments, line 229, and the rest of push_symbol (lines 94-108)
CloseArguments ==
    /\ InArguments
    /\ peek_operator(tokens, ")")
    /\ continue_parse(finish_symbol(top.parser, top.symbol.value, top.args), Tail(tokens))
    /\ not_parsing

NextParse ==
    \/ ParseFinish
    \/ ParseEndOfInput
    \/ ParseTokenError
    \/ PushConstant
    \/ PushOperator
    \/ PushSymbol
    \/ ParseArgument
    \/ CloseArguments

----------------------------------------------------------------------------
(* ops.rs: the native functions of the operators, on integers *)

to_bool(x) == x # 0
to_float(b) == IF b THEN 1 ELSE 0

\* OpFunction::Nullary(function): f64::consts::E and PI are no integers, and no
\* program of the model evaluates them
apply_nullary(op) == CHOOSE x \in {} : op.name \in {"e", "pi"}

\* OpFunction::Unary(function) applied to x
apply_unary(op, x) ==
    CASE op.name = "!" -> to_float(~to_bool(x))
      [] op.name = "-" -> 0 - x
      [] op.name = "abs" -> IF x < 0 THEN 0 - x ELSE x

\* OpFunction::Binary(function) applied to x and y
apply_binary(op, x, y) ==
    CASE op.name = "==" -> to_float(x = y)
      [] op.name = "!=" -> to_float(x # y)
      [] op.name = "<" -> to_float(x < y)
      [] op.name = ">" -> to_float(x > y)
      [] op.name = "<=" -> to_float(x <= y)
      [] op.name = ">=" -> to_float(x >= y)
      [] op.name = "+" -> x + y
      [] op.name = "-" -> x - y
      [] op.name = "*" -> x * y
      [] op.name = "max" -> IF x > y THEN x ELSE y
      [] op.name = "min" -> IF x < y THEN x ELSE y

\* line 126 with the two branches of || exchanged
apply_lazy_inverted(op, x) ==
    CASE op.name = "||" -> IF to_bool(x) THEN 1 ELSE 0
      [] op.name = "&&" -> IF to_bool(x) THEN 1 ELSE 0
      [] op.name = "?:" -> IF to_bool(x) THEN 1 ELSE 2

\* OpFunction::Lazy(function) applied to the first argument: the index to return
apply_lazy(op, x) ==
    CASE op.name = "||" -> IF to_bool(x) THEN 0 ELSE 1
      [] op.name = "&&" -> IF to_bool(x) THEN 1 ELSE 0
      [] op.name = "?:" -> IF to_bool(x) THEN 1 ELSE 2

----------------------------------------------------------------------------
(* expr.rs: the evaluator, one action per step of eval *)

MAX_RECURSION == 256

FunctionFrame(local_names, local_values, recursion_count) ==
    [local_names |-> local_names, local_values |-> local_values,
     recursion_count |-> recursion_count]

\* a call of eval(): its expression and frame, the values its callees returned
\* so far, the indices (from 0) of the children whose evaluation it started,
\* and whether the value of its last callee is its own value (a tail call)
EvalActivation(expression, frame) ==
    [expression |-> expression, frame |-> frame, values |-> <<>>, started |-> <<>>,
     tail |-> FALSE]

\* evaluate: the root frame
RootActivation(expression) == EvalActivation(expression, FunctionFrame(<<>>, <<>>, 0))

etop == Last(estack)

\* the innermost activation runs: whatever it called has returned
InEval == pc = "eval" /\ estack # <<>>

\* eval() returns r: an error goes up through every caller (the ? operator),
\* a value goes to the caller
return_eval(r) ==
    IF r.kind # "Ok" \/ Len(estack) = 1
    THEN /\ estack' = <<>>
         /\ eres' = Some(r)
    ELSE /\ estack' = [Front(estack) EXCEPT ![Len(estack) - 1].values = Append(@, r.value)]
         /\ eres' = eres

\* the innermost activation calls eval(&args[index], frame)
call_eval(index, tail) ==
    IF index >= Len(etop.expression.args)
    THEN return_eval(Panic("index out of bounds"))
    ELSE /\ estack' = Append([estack EXCEPT ![Len(estack)] =
                                 [@ EXCEPT !.started = Append(@, index), !.tail = tail]],
                             EvalActivation(etop.expression.args[index + 1], etop.frame))
         /\ eres' = eres

not_evaluating == UNCHANGED <<the_tokenizer, program, input, line, tokens, pstack, pres, context, defined, output, pc>>

IsOperator(function) ==
    /\ InEval
    /\ ~etop.tail
    /\ etop.expression.kind = "Operator"
    /\ etop.expression.op.function = function

\* line 323
EvalConstant ==
    /\ InEval
    /\ etop.expression.kind = "Constant"
    /\ return_eval(Ok(etop.expression.value))
    /\ not_evaluating

\* the number of children a Nullary, Unary or Binary function reads
operands(function) ==
    CASE function = "Nullary" -> 0
      [] function = "Unary" -> 1
      [] function = "Binary" -> 2

\* the operands of a Unary or Binary operator, the last first
EvaluateOperand_reversed ==
    /\ IsOperator("Unary") \/ IsOperator("Binary")
    /\ Len(etop.values) < operands(etop.expression.op.function)
    /\ call_eval(operands(etop.expression.op.function) - 1 - Len(etop.values), FALSE)
    /\ not_evaluating

\* lines 334-335: the next operand of a Unary or Binary operator
EvaluateOperand ==
    /\ IsOperator("Unary") \/ IsOperator("Binary")
    /\ Len(etop.values) < operands(etop.expression.op.function)
    /\ call_eval(Len(etop.values), FALSE)
    /\ not_evaluating

\* lines 333-335: the native function is applied to the values
EvaluateApply ==
    /\ IsOperator("Nullary") \/ IsOperator("Unary") \/ IsOperator("Binary")
    /\ Len(etop.values) = operands(etop.expression.op.function)
    /\ LET op == etop.expression.op IN
       return_eval(Ok(CASE op.function = "Nullary" -> apply_nullary(op)
                        [] op.function = "Unary" -> apply_unary(op, etop.values[1])
                        [] op.function = "Binary" ->
                             apply_binary(op, etop.values[1], etop.values[2])))
    /\ not_evaluating

\* line 341: the first argument of a Lazy operator
EvaluateLazyFirst ==
    /\ IsOperator("Lazy")
    /\ etop.values = <<>>
    /\ call_eval(0, FALSE)
    /\ not_evaluating

\* a Lazy operator that returns its first value as a boolean
EvaluateLazySelect_as_bool ==
    /\ IsOperator("Lazy")
    /\ Len(etop.values) = 1
    /\ LET arg0 == etop.values[1]
           which_arg == apply_lazy(etop.expression.op, arg0)
       IN  IF which_arg = 0
           THEN return_eval(Ok(to_float(to_bool(arg0))))
           ELSE call_eval(which_arg, TRUE)
    /\ not_evaluating

\* lines 342-349: the first value selects what is returned
EvaluateLazySelect ==
    /\ IsOperator("Lazy")
    /\ Len(etop.values) = 1
    /\ LET arg0 == etop.values[1]
           which_arg == apply_lazy(etop.expression.op, arg0)
       IN  IF which_arg = 0
           THEN return_eval(Ok(arg0))
           ELSE call_eval(which_arg, TRUE)
    /\ not_evaluating

\* lines 348 and 392: the value of the selected argument, or of the function
\* body, is the value of the caller
EvaluateTailReturn ==
    /\ InEval
    /\ etop.tail
    /\ return_eval(Ok(Last(etop.values)))
    /\ not_evaluating

\* an Invalid operator that evaluates its first child before it fails
EvaluateInvalid_after_child ==
    /\ IsOperator("Invalid")
    /\ IF etop.values = <<>>
       THEN call_eval(0, FALSE)
       ELSE return_eval(Err(<<str("Invalid use of "), str(etop.expression.op.name),
                              str(" operator.")>>))
    /\ not_evaluating

\* line 352
EvaluateInvalid ==
    /\ IsOperator("Invalid")
    /\ return_eval(Err(<<str("Invalid use of "), str(etop.expression.op.name),
                         str(" operator.")>>))
    /\ not_evaluating

IsFunction ==
    /\ InEval
    /\ ~etop.tail
    /\ etop.expression.kind = "Function"

\* a lookup that lets a function of the Context hide the local of its name
which_local_unless_global(frame, name) ==
    IF name \in DOMAIN context
    THEN 0
    ELSE IF \E i \in 1..Len(frame.local_names) : frame.local_names[i] = name
         THEN CHOOSE i \in 1..Len(frame.local_names) :
                 /\ frame.local_names[i] = name
                 /\ \A j \in 1..(i - 1) : frame.local_names[j] # name
         ELSE 0

\* line 358: the position (from 1) of the first local name equal to name, or 0
which_local(frame, name) ==
    IF \E i \in 1..Len(frame.local_names) : frame.local_names[i] = name
    THEN CHOOSE i \in 1..Len(frame.local_names) :
            /\ frame.local_names[i] = name
            /\ \A j \in 1..(i - 1) : frame.local_names[j] # name
    ELSE 0

\* lines 358-366 without the test of line 360
lookup_local_any_args(frame, name, args) ==
    IF which_local(frame, name) > Len(frame.local_values)
    THEN Panic("index out of bounds")
    ELSE Ok(frame.local_values[which_local(frame, name)])

\* lines 358-366: looking up a local function parameter
lookup_local(frame, name, args) ==
    IF args = <<>>
    THEN IF which_local(frame, name) > Len(frame.local_values)
         THEN Panic("index out of bounds")
         ELSE Ok(frame.local_values[which_local(frame, name)])
    ELSE Err(<<str("Use of "), str(name), str("() as first class function is not supported.")>>)

EvaluateLocal ==
    /\ IsFunction
    /\ which_local(etop.frame, etop.expression.name) # 0
    /\ return_eval(lookup_local(etop.frame, etop.expression.name, etop.expression.args))
    /\ not_evaluating

\* the name is no local name: a user defined function is called
IsCall ==
    /\ IsFunction
    /\ which_local(etop.frame, etop.expression.name) = 0

\* lines 369 and 395
EvaluateUnknown ==
    /\ IsCall
    /\ etop.expression.name \notin DOMAIN context
    /\ return_eval(Err(<<str("Unknown value "), str(etop.expression.name), str(".")>>))
    /\ not_evaluating

\* lines 371-373
EvaluateWrongArguments ==
    /\ IsCall
    /\ etop.expression.name \in DOMAIN context
    /\ Len(etop.expression.args) # Len(context[etop.expression.name].args)
    /\ return_eval(Err(<<str("Wrong number of arguments for "), str(etop.expression.name),
                         str("(): expected "), num(Len(context[etop.expression.name].args)),
                         str(" but got "), num(Len(etop.expression.args)), str(".")>>))
    /\ not_evaluating

\* lines 377-379: the next argument is evaluated in the caller's frame
EvaluateArgument ==
    /\ IsCall
    /\ etop.expression.name \in DOMAIN context
    /\ Len(etop.expression.args) = Len(context[etop.expression.name].args)
    /\ Len(etop.values) < Len(etop.expression.args)
    /\ call_eval(Len(etop.values), FALSE)
    /\ not_evaluating

\* lines 381-392 with >= for > in line 381
call_function_one_early(activation, function) ==
    IF activation.frame.recursion_count >= MAX_RECURSION
    THEN Err(<<str("Excessive recursion.")>>)
    ELSE Ok(EvalActivation(function.expression,
                           FunctionFrame(function.args, activation.values,
                                         activation.frame.recursion_count + 1)))

\* lines 381-392 with a child frame that keeps the locals of the caller behind
\* its own
call_function_inheriting(activation, function) ==
    IF activation.frame.recursion_count > MAX_RECURSION
    THEN Err(<<str("Excessive recursion.")>>)
    ELSE Ok(EvalActivation(function.expression,
                           FunctionFrame(function.args \o activation.frame.local_names,
                                         activation.values \o activation.frame.local_values,
                                         activation.frame.recursion_count + 1)))

\* lines 381-392: the recursion check, then the body in the child frame
call_function(activation, function) ==
    IF activation.frame.recursion_count > MAX_RECURSION
    THEN Err(<<str("Excessive recursion.")>>)
    ELSE Ok(EvalActivation(function.expression,
                           FunctionFrame(function.args, activation.values,
                                         activation.frame.recursion_count + 1)))

\* a call that runs the body in the place of the caller, the depth not counted
EvaluateCall_in_place ==
    /\ IsCall
    /\ etop.expression.name \in DOMAIN context
    /\ Len(etop.expression.args) = Len(context[etop.expression.name].args)
    /\ Len(etop.values) = Len(etop.expression.args)
    /\ estack' = [estack EXCEPT ![Len(estack)] =
                     EvalActivation(context[etop.expression.name].expression,
                                    FunctionFrame(context[etop.expression.name].args,
                                                  etop.values, etop.frame.recursion_count))]
    /\ eres' = eres
    /\ not_evaluating

\* lines 381-392: the body is evaluated in the child frame, its value returned
EvaluateCall ==
    /\ IsCall
    /\ etop.expression.name \in DOMAIN context
    /\ Len(etop.expression.args) = Len(context[etop.expression.name].args)
    /\ Len(etop.values) = Len(etop.expression.args)
    /\ LET r == call_function(etop, context[etop.expression.name]) IN
       IF r.kind = "Ok"
       THEN /\ estack' = Append([estack EXCEPT ![Len(estack)].tail = TRUE], r.value)
            /\ eres' = eres
       ELSE return_eval(r)
    /\ not_evaluating

NextEval ==
    \/ EvalConstant
    \/ EvaluateOperand
    \/ EvaluateApply
    \/ EvaluateLazyFirst
    \/ EvaluateLazySelect
    \/ EvaluateTailReturn
    \/ EvaluateInvalid
    \/ EvaluateLocal
    \/ EvaluateUnknown
    \/ EvaluateWrongArguments
    \/ EvaluateArgument
    \/ EvaluateCall

----------------------------------------------------------------------------
(* expr.rs: deconstruct_function_definition *)

\* line 416 without the test of arg_args.is_empty()
IsParameter_with_arguments(arg) == arg.kind = "Function"

IsParameter(arg) == arg.kind = "Function" /\ arg.args = <<>>

\* a deconstruction that takes the name of each parameter as it accepts it, so
\* that a later argument that is rejected leaves the earlier names empty
deconstruct_function_definition_eager(expression) ==
    IF expression.kind = "Operator" /\ expression.op.name = "="
    THEN IF expression.args = <<>>
         THEN [result |-> Panic("index out of bounds"), expression |-> expression]
         ELSE LET target == expression.args[1] IN
              IF /\ target.kind = "Function"
                 /\ \A i \in 1..Len(target.args) : IsParameter(target.args[i])
              THEN [result |->
                        Ok(Some([function |->
                                     [expression |-> Last(expression.args),
                                      args |-> [i \in 1..Len(target.args) |->
                                                   target.args[i].name]],
                                 name |-> target.name])),
                    expression |->
                        Operator(expression.op,
                                 <<Function("", [i \in 1..Len(target.args) |->
                                                    Function("", <<>>)])>>
                                 \o SubSeq(expression.args, 2, Len(expression.args) - 1))]
              ELSE IF target.kind = "Function"
                   THEN [result |-> Ok(None),
                         expression |->
                             Operator(expression.op,
                                      <<Function(target.name,
                                                 [i \in 1..Len(target.args) |->
                                                     IF \A j \in 1..i : IsParameter(target.args[j])
                                                     THEN Function("", <<>>)
                                                     ELSE target.args[i]])>>
                                      \o Tail(expression.args))]
                   ELSE [result |-> Ok(None), expression |-> expression]
    ELSE [result |-> Ok(None), expression |-> expression]

\* the Option it returns and the expression it leaves behind: mem::take leaves
\* empty names, pop removes the body
deconstruct_function_definition(expression) ==
    IF expression.kind = "Operator" /\ expression.op.name = "="
    THEN IF expression.args = <<>>
         THEN [result |-> Panic("index out of bounds"), expression |-> expression]
         ELSE LET target == expression.args[1] IN
              IF /\ target.kind = "Function"
                 /\ \A i \in 1..Len(target.args) : IsParameter(target.args[i])
              THEN [result |->
                        Ok(Some([function |->
                                     [expression |-> Last(expression.args),
                                      args |-> [i \in 1..Len(target.args) |->
                                                   target.args[i].name]],
                                 name |-> target.name])),
                    expression |->
                        Operator(expression.op,
                                 <<Function("", [i \in 1..Len(target.args) |->
                                                    Function("", <<>>)])>>
                                 \o SubSeq(expression.args, 2, Len(expression.args) - 1))]
              ELSE [result |-> Ok(None), expression |-> expression]
    ELSE [result |-> Ok(None), expression |-> expression]

\* an insert that keeps the entry the name already has
insert_keeping(functions, name, function) ==
    [n \in DOMAIN functions \cup {name} |->
        IF n \in DOMAIN functions THEN functions[n] ELSE function]

\* an insert that binds at definition time: a body that is the bare name of a
\* function already defined is replaced by the body of that function
insert_resolved(functions, name, function) ==
    LET body == function.expression
        resolved ==
            IF /\ body.kind = "Function"
               /\ body.args = <<>>
               /\ body.name \in DOMAIN functions
               /\ \A i \in DOMAIN function.args : function.args[i] # body.name
            THEN [function EXCEPT !.expression = functions[body.name].expression]
            ELSE function
    IN  [n \in DOMAIN functions \cup {name} |-> IF n = name THEN resolved ELSE functions[n]]

\* HashMap::insert: the entry of that name is added or replaced
insert(functions, name, function) ==
    [n \in DOMAIN functions \cup {name} |-> IF n = name THEN function ELSE functions[n]]

----------------------------------------------------------------------------
(* main.rs: main and evaluate_line *)

\* evaluate_line, line 63: another statement follows, or the line is done
next_statement(tokenizer) ==
    IF tokenizer # <<>>
    THEN /\ pc' = "parse"
         /\ pstack' = <<Activation(FALSE)>>
    ELSE /\ pc' = "main"
         /\ pstack' = <<>>

\* main, line 45, and evaluate_line, line 56: the next line gets its tokenizer
ReadLine ==
    /\ pc = "main"
    /\ input # <<>>
    /\ input' = Tail(input)
    /\ line' = Head(input)
    /\ tokens' = Head(input)
    /\ pres' = None
    /\ eres' = None
    /\ next_statement(Head(input))
    /\ UNCHANGED <<the_tokenizer, program, estack, context, defined, output>>

\* line 64: `parse(..)?` fails, line 49 prints the message (an abort ends the process)
ParseFailed ==
    /\ pc = "parsed"
    /\ pres.value.kind # "Ok"
    /\ output' = Append(output, pres.value)
    /\ pc' = IF pres.value.kind = "Panic" THEN "aborted" ELSE "main"
    /\ UNCHANGED <<the_tokenizer, program, input, line, tokens, pstack, pres, estack, eres, context, defined>>

\* lines 66-69: the statement defines a function
DefineFunction ==
    /\ pc = "parsed"
    /\ pres.value.kind = "Ok"
    /\ LET d == deconstruct_function_definition(pres.value.value).result IN
       /\ d.kind = "Ok"
       /\ d.value.some
       /\ context' = insert(context, d.value.value.name, d.value.value.function)
       /\ defined' = Append(defined, d.value.value)
    /\ next_statement(tokens)
    /\ UNCHANGED <<the_tokenizer, program, input, line, tokens, pres, estack, eres, output>>

\* lines 70-72: the statement is an expression, evaluate() makes the root frame
Evaluate ==
    /\ pc = "parsed"
    /\ pres.value.kind = "Ok"
    /\ LET d == deconstruct_function_definition(pres.value.value) IN
       /\ ~(d.result.kind = "Ok" /\ d.result.value.some)
       /\ IF d.result.kind = "Ok"
          THEN /\ estack' = <<RootActivation(d.expression)>>
               /\ eres' = None
          ELSE /\ estack' = <<>>
               /\ eres' = Some(d.result)
    /\ pc' = "eval"
    /\ UNCHANGED <<the_tokenizer, program, input, line, tokens, pstack, pres, context, defined, output>>

\* line 72: print_number of the value, then the next statement of the line
PrintNumber ==
    /\ pc = "eval"
    /\ estack = <<>>
    /\ eres.some
    /\ eres.value.kind = "Ok"
    /\ output' = Append(output, eres.value)
    /\ next_statement(tokens)
    /\ UNCHANGED <<the_tokenizer, program, input, line, tokens, pres, estack, eres, context, defined>>

\* line 72: `evaluate(..)?` fails, line 49 prints the message (an abort ends the process)
EvaluateFailed ==
    /\ pc = "eval"
    /\ estack = <<>>
    /\ eres.some
    /\ eres.value.kind # "Ok"
    /\ output' = Append(output, eres.value)
    /\ pc' = IF eres.value.kind = "Panic" THEN "aborted" ELSE "main"
    /\ UNCHANGED <<the_tokenizer, program, input, line, tokens, pstack, pres, estack, eres, context, defined>>

NextLine ==
    \/ ReadLine
    \/ ParseFailed
    \/ DefineFunction
    \/ Evaluate
    \/ PrintNumber
    \/ EvaluateFailed

Next == NextTokenizer \/ NextParse \/ NextEval \/ NextLine

----------------------------------------------------------------------------
(* the lines given to parse *)

\* longest line of the exhaustive family
MaxTokens == 5

\* longest run of prefix operators in the unary family
MaxRun == 3

BinaryOperators ==
    {OPERATORS[i] : i \in {j \in 1..Len(OPERATORS) :
                              OPERATORS[j].arity = 2 /\ OPERATORS[j].precedence # "None"}}

\* x a y b z
PlainLine(a, b) ==
    <<Number(1), OperatorToken(a), Number(2), OperatorToken(b), Number(3)>>

\* (x a y) b z
LeftLine(a, b) ==
    <<Op("("), Number(1), OperatorToken(a), Number(2), Op(")"), OperatorToken(b), Number(3)>>

\* x a (y b z)
RightLine(a, b) ==
    <<Number(1), OperatorToken(a), Op("("), Number(2), OperatorToken(b), Number(3), Op(")")>>

PairLines(a, b) == {PlainLine(a, b), LeftLine(a, b), RightLine(a, b)}

\* the forms of operand the ternary family is built from
OperandKinds == 1..5

OperandTokens(kind, n) ==
    CASE kind = 1 -> <<Number(n)>>
      [] kind = 2 -> <<Number(n), Op("+"), Number(n + 1)>>
      [] kind = 3 -> <<Op("-"), Number(n)>>
      [] kind = 4 -> <<Text("f")>>
      [] kind = 5 -> <<Number(n), Op("||"), Number(n + 1)>>

\* c ? a : b
TernaryLine(c, a, b) ==
    OperandTokens(c, 10) \o <<Op("?")>> \o OperandTokens(a, 20) \o <<Op(":")>> \o OperandTokens(b, 30)

PrefixOperators == {Op("-"), Op("!"), Op("~")}

\* a run of prefix operators in front of a number
UnaryLine(run) == run \o <<Number(1)>>

\* -1--2---3
NegateLine ==
    <<Op("-"), Number(1), Op("-"), Op("-"), Number(2), Op("-"), Op("-"), Op("-"), Number(3)>>

\* lines taken from the parser's tests, and lines with a quoted operator name
\* (1 ? ':'(2,3) and the like)
TestLines ==
    { NegateLine,
      <<Number(1), Op("?"), Number(2)>>,
      <<Number(1), Op("=="), Number(2), Op("?"), Number(3), Op("+"), Number(4), Op(":"), Number(5)>>,
      <<Text("max"), Op("("), Number(1), Text(","), Number(2), Op(")")>>,
      <<Text("max"), Op("("), Number(1), Op(")")>>,
      <<Text("e"), Op("("), Number(1), Op(")")>>,
      <<Text("e"), Text("pi")>>,
      <<Text("x"), Op("("), Text("y"), Op("+"), Text("z"), Op(")"), Op("/"), Text("sqrt"),
        Op("("), Number(10), Op(")"), Op(")"), Op("+"), Number(2)>>,
      <<Text("sqrt"), Op("(")>>,
      <<Op("!"), Op("+")>>,
      <<Number(1), Op("+"), Number(2), Text(","), Number(3)>>,
      <<Text("max"), Op("("), Number(1), Text(","), Number(2), Op(")"), Text(","), Number(3),
        Text(","), Number(4)>>,
      <<Op("+"), Op("+")>>,
      <<Text("x"), Op("+")>>,
      <<Number(1), Op("*"), Op("+"), Number(2)>>,
      <<Op("("), Number(1), Op("+"), Number(2), Op(")"), Op("*"), Number(3)>>,
      <<Text("foo"), Op("("), Op(")"), Text("bar"), Op("("), Op(")")>>,
      <<Text("f"), Op("("), Op("("), Number(1), Op("+"), Number(2), Op(")"), Op("*"), Number(3),
        Op(")")>>,
      <<Text("?"), Op("("), Number(1), Text(","), Number(2), Op(":"), Number(3), Op(")")>>,
      <<Text("foo"), Op("("), Number(1), Text(","), Text("bar"), Op("("), Text("x"), Text(","),
        Text("y"), Op("+"), Text("foo"), Op("("), Text("bar"), Op("("), Op(")"), Op(")"),
        Op(")"), Op(")")>>,
      <<Number(1), Op("?"), Text(":"), Op("("), Number(2), Text(","), Number(3), Op(")")>>,
      <<Number(1), Op("?"), Text(":"), Op("("), Op(")")>>,
      <<Text("+"), Op("("), Number(1), Text(","), Number(2), Op(")")>>,
      <<Text("?"), Op("("), Number(1), Text(","), Number(2), Op(")")>>,
      <<Number(1), Op("+"), TokenErr(<<str("Invalid numeric constant '"), str("3ee2"), str("'")>>)>> }

\* f(1,), f(1), f(,1), f(1,,2), f(), f(1,2,), f(1,2), f(,) and f(1+,2)
CommaLines ==
    { <<Text("f"), Op("("), Number(1), Text(","), Op(")")>>,
      <<Text("f"), Op("("), Number(1), Op(")")>>,
      <<Text("f"), Op("("), Text(","), Number(1), Op(")")>>,
      <<Text("f"), Op("("), Number(1), Text(","), Text(","), Number(2), Op(")")>>,
      <<Text("f"), Op("("), Op(")")>>,
      <<Text("f"), Op("("), Number(1), Text(","), Number(2), Text(","), Op(")")>>,
      <<Text("f"), Op("("), Number(1), Text(","), Number(2), Op(")")>>,
      <<Text("f"), Op("("), Text(","), Op(")")>>,
      <<Text("f"), Op("("), Number(1), Op("+"), Text(","), Number(2), Op(")")>> }

\* e and sin(e()): lines that are parsed and not evaluated, their values
\* being no integers
NullaryLines ==
    { <<Text("e")>>,
      <<Text("sin"), Op("("), Text("e"), Op("("), Op(")"), Op(")")>> }

Alphabet ==
    { Number(0), Text("f"), Text("max"), Text(","),
      Op("("), Op(")"), Op("-"), Op("!"), Op("?"), Op(":") }

\* a number token carries its position in the line, so operands can be told apart
Numbered(l) == [i \in DOMAIN l |-> IF l[i] = Number(0) THEN Number(i) ELSE l[i]]

\* deepest nesting of the ternary lines
MaxNesting == 2

RECURSIVE TernaryShapes(_)
\* the lines of E ::= constant | E ? E : E nested at most depth deep
TernaryShapes(depth) ==
    IF depth = 0
    THEN {<<Number(0)>>}
    ELSE LET inner == TernaryShapes(depth - 1) IN
         inner \cup {x \o <<Op("?")>> \o y \o <<Op(":")>> \o z :
                        x \in inner, y \in inner, z \in inner}

NestedTernaries == {Numbered(l) : l \in TernaryShapes(MaxNesting)}

\* every line of at most MaxTokens tokens of the alphabet
IsShortLine(l) ==
    \E n \in 0..MaxTokens : \E m \in [1..n -> Alphabet] : l = Numbered(m)

IsParseLine(l) ==
    \/ \E a \in BinaryOperators, b \in BinaryOperators : l \in PairLines(a, b)
    \/ \E c \in OperandKinds, a \in OperandKinds, b \in OperandKinds : l = TernaryLine(c, a, b)
    \/ \E n \in 1..MaxRun : \E run \in [1..n -> PrefixOperators] : l = UnaryLine(run)
    \/ l \in TestLines
    \/ l \in NullaryLines
    \/ l \in NestedTernaries
    \/ l \in CommaLines
    \/ IsShortLine(l)

InitParse ==
    /\ IsParseLine(line)
    /\ program = <<line>>
    /\ the_tokenizer = new(<<>>)
    /\ tokens = line
    /\ pstack = <<Activation(FALSE)>>
    /\ pres = None
    /\ pc = "parse"
    /\ input = <<>>
    /\ estack = <<>>
    /\ eres = None
    /\ context = [n \in {} |-> None]
    /\ defined = <<>>
    /\ output = <<>>

\* do_parse: one call of parse on a fresh tokenizer
SpecParse == InitParse /\ [][NextParse]_vars

----------------------------------------------------------------------------
(* properties of parse, under SpecParse *)

\* parse has returned from line l
Parsed(l) == pc = "parsed" /\ line = l

\* parse returned the tree t
Tree(t) == pres = Some(Ok(t))

\* the place of an operator's precedence in the enum, lowest first
Rank(op) == CHOOSE i \in 1..Len(Precedence) : Precedence[i] = op.precedence

Lower(a, b) == Rank(a) < Rank(b)

Binary(a, x, y) == Operator(a, <<x, y>>)

RECURSIVE Nodes(_)
\* the nodes of a tree
Nodes(t) ==
    {t} \cup IF t.kind = "Constant"
             THEN {}
             ELSE UNION {Nodes(t.args[i]) : i \in DOMAIN t.args}

IsBinaryToken(t) == t.type = "Operator" /\ t.op \in BinaryOperators

\* l is x a y b z, (x a y) b z or x a (y b z) for binary operators a and b
IsPlain(l) ==
    Len(l) = 5 /\ IsBinaryToken(l[2]) /\ IsBinaryToken(l[4]) /\ l = PlainLine(l[2].op, l[4].op)
IsLeft(l) ==
    Len(l) = 7 /\ IsBinaryToken(l[3]) /\ IsBinaryToken(l[6]) /\ l = LeftLine(l[3].op, l[6].op)
IsRight(l) ==
    Len(l) = 7 /\ IsBinaryToken(l[2]) /\ IsBinaryToken(l[5]) /\ l = RightLine(l[2].op, l[5].op)

\* C1: of two binary operators in x a y b z the one of higher precedence is
\* reduced first, whichever side it is on, and a parenthesised sub-expression
\* is one operand of the operator around it
C1_PrecedenceOrdersReduction ==
    LET x == Constant(1)
        y == Constant(2)
        z == Constant(3)
    IN  pc = "parsed" =>
        /\ IsPlain(line) =>
               LET a == line[2].op
                   b == line[4].op
               IN  /\ Lower(a, b) => Tree(Binary(a, x, Binary(b, y, z)))
                   /\ Lower(b, a) => Tree(Binary(b, Binary(a, x, y), z))
        /\ IsLeft(line) =>
               Tree(Binary(line[6].op, Binary(line[3].op, x, y), z))
        /\ IsRight(line) =>
               LET a == line[2].op
                   b == line[5].op
               IN  Tree(IF a.name = "?" /\ b.name = ":"
                        THEN Operator(TERNARY, <<x, y, z>>)
                        ELSE Binary(a, x, Binary(b, y, z)))

C1_Witness ==
    /\ Parsed(PlainLine(Op("+").op, Op("*").op))
    /\ Tree(Binary(Op("+").op, Constant(1), Binary(Op("*").op, Constant(2), Constant(3))))

C1_WitnessParenthesis ==
    /\ Parsed(LeftLine(Op("+").op, Op("*").op))
    /\ Tree(Binary(Op("*").op, Binary(Op("+").op, Constant(1), Constant(2)), Constant(3)))

\* C2: two binary operators of equal precedence, neither of them ? or :,
\* group to the left: x a y b z parses to b(a(x,y),z)
C2_EqualPrecedenceGroupsLeft ==
    (pc = "parsed" /\ IsPlain(line)) =>
        LET a == line[2].op
            b == line[4].op
        IN  (a.precedence = b.precedence /\ {a.name, b.name} \cap {"?", ":"} = {})
            => Tree(Binary(b, Binary(a, Constant(1), Constant(2)), Constant(3)))

C2_Witness ==
    /\ Parsed(PlainLine(Op("^").op, Op("^").op))
    /\ Tree(Binary(Op("^").op, Binary(Op("^").op, Constant(1), Constant(2)), Constant(3)))

RECURSIVE Nest(_, _)
\* the prefix operators of run applied to operand, the last one first
Nest(run, operand) ==
    IF run = <<>>
    THEN operand
    ELSE Operator(IF Head(run) = Op("-") THEN NEGATE ELSE Head(run).op,
                  <<Nest(Tail(run), operand)>>)

\* -(-(-(1),-(2)),-(-(3)))
NegateTree ==
    Binary(Op("-").op,
           Binary(Op("-").op, Operator(NEGATE, <<Constant(1)>>), Operator(NEGATE, <<Constant(2)>>)),
           Operator(NEGATE, <<Operator(NEGATE, <<Constant(3)>>)>>))

\* a - token is pushed: it goes on the stack as negate when the current slot
\* is empty and as subtraction when it is not
MinusPushed ==
    (InParseLoop /\ tokens # <<>> /\ Head(tokens) = Op("-") /\ pc' = "parse")
    => /\ Len(pstack') = Len(pstack)
       /\ Last(pstack').parser.stack # <<>>
       /\ Last(Last(pstack').parser.stack).op =
              IF top.parser.current.some THEN Op("-").op ELSE NEGATE

\* l is a run of prefix operators in front of the number 1
IsUnaryLine(l) ==
    /\ Len(l) >= 2
    /\ Last(l) = Number(1)
    /\ \A i \in 1..(Len(l) - 1) : l[i] \in PrefixOperators

\* C3: - is unary negate exactly when the current slot is empty, runs of
\* prefix operators nest right to left, and -1--2---3 parses to
\* -(-(-(1),-(2)),-(-(3)))
C3_UnaryNegate ==
    /\ [][MinusPushed]_vars
    /\ [](Parsed(NegateLine) => Tree(NegateTree))
    /\ []((pc = "parsed" /\ IsUnaryLine(line)) => Tree(Nest(Front(line), Constant(1))))

C3_Witness == Parsed(NegateLine) /\ Tree(NegateTree)

C3_WitnessRun ==
    /\ Parsed(UnaryLine(<<Op("-"), Op("!"), Op("-")>>))
    /\ pres.value.kind = "Ok"

\* the tree of an operand of the ternary family
OperandTree(kind, n) ==
    CASE kind = 1 -> Constant(n)
      [] kind = 2 -> Binary(Op("+").op, Constant(n), Constant(n + 1))
      [] kind = 3 -> Operator(NEGATE, <<Constant(n)>>)
      [] kind = 4 -> Function("f", <<>>)
      [] kind = 5 -> Binary(Op("||").op, Constant(n), Constant(n + 1))

\* C4: a ? whose right operand is a : node becomes one ?: node with the left
\* operand of ? and the two children of :, and any other ? stays binary
C4_TernaryFusion ==
    pc = "parsed" =>
    /\ (line # <<>> /\ Head(line) \in {Number(10), Op("-"), Text("f")}) =>
           \A c \in OperandKinds, a \in OperandKinds, b \in OperandKinds :
               line = TernaryLine(c, a, b) =>
                   Tree(Operator(TERNARY, <<OperandTree(c, 10), OperandTree(a, 20), OperandTree(b, 30)>>))
    /\ line = <<Number(1), Op("?"), Number(2)>> =>
           Tree(Binary(Op("?").op, Constant(1), Constant(2)))
    /\ (IsRight(line) /\ line[2] = Op("?")) =>
           Tree(IF line[5] = Op(":")
                THEN Operator(TERNARY, <<Constant(1), Constant(2), Constant(3)>>)
                ELSE Binary(Op("?").op, Constant(1), Binary(line[5].op, Constant(2), Constant(3))))
    /\ (IsPlain(line) /\ line[2] = Op("?") /\ Lower(Op("?").op, line[4].op)) =>
           Tree(Binary(Op("?").op, Constant(1), Binary(line[4].op, Constant(2), Constant(3))))
    /\ (pres.value.kind = "Ok" /\ \A i \in DOMAIN line : line[i] # Text("?")) =>
           \A node \in Nodes(pres.value.value) :
               (node.kind = "Operator" /\ node.op.name = "?") =>
                   ~(node.args[2].kind = "Operator" /\ node.args[2].op.name = ":")

C4_Witness ==
    /\ Parsed(TernaryLine(2, 1, 3))
    /\ Tree(Operator(TERNARY, <<OperandTree(2, 10), OperandTree(1, 20), OperandTree(3, 30)>>))

C4_WitnessBinary ==
    /\ Parsed(RightLine(Op("?").op, Op("+").op))
    /\ pres.value.kind = "Ok"

\* C5: every Operator node of a tree parse returns has as many children as
\* the arity of its operator
C5_ArityRespected ==
    (pc = "parsed" /\ pres.value.kind = "Ok") =>
        \A node \in Nodes(pres.value.value) :
            node.kind = "Operator" => Len(node.args) = node.op.arity

C5_Witness ==
    /\ pc = "parsed"
    /\ pres.value.kind = "Ok"
    /\ \E node \in Nodes(pres.value.value) :
           node.kind = "Operator" /\ node.op.name = "max" /\ Len(node.args) = 2

C5_WitnessTernary ==
    /\ pc = "parsed"
    /\ pres.value.kind = "Ok"
    /\ \E node \in Nodes(pres.value.value) :
           node.kind = "Operator" /\ node.op = TERNARY /\ Len(node.args) = 3

----------------------------------------------------------------------------
(* the programs given to main: sequences of lines *)

\* most lines of a program drawn from the pool
MaxLines == 3

\* name(a1, ..., an) with one token per argument
Call(name, arguments) ==
    <<Text(name), Op("(")>>
    \o [i \in 1..(2 * Len(arguments) - 1) |->
           IF i % 2 = 1 THEN arguments[(i + 1) \div 2] ELSE Text(",")]
    \o <<Op(")")>>

\* factorial(n) = n>1 ? n * factorial(n-1) : 1
DefineFactorial ==
    Call("factorial", <<Text("n")>>)
    \o <<Op("="), Text("n"), Op(">"), Number(1), Op("?"), Text("n"), Op("*"),
         Text("factorial"), Op("("), Text("n"), Op("-"), Number(1), Op(")"),
         Op(":"), Number(1)>>

\* name(n) = n>1 ? name(n-1) : last
DefineDescent(name, last) ==
    Call(name, <<Text("n")>>)
    \o <<Op("="), Text("n"), Op(">"), Number(1), Op("?"),
         Text(name), Op("("), Text("n"), Op("-"), Number(1), Op(")"), Op(":")>>
    \o last

\* loop = loop and f = g, g = f: functions that call themselves or each other
\* without condition
RecursivePrograms ==
    { << <<Text("loop"), Op("="), Text("loop")>>, <<Text("loop")>> >>,
      << <<Text("f"), Op("="), Text("g")>>, <<Text("g"), Op("="), Text("f")>>, <<Text("f")>> >> }

\* programs that recurse deeply
DeepPrograms ==
    RecursivePrograms \cup
    { <<DefineFactorial, Call("factorial", <<Number(10)>>)>>,
      <<DefineFactorial, Call("factorial", <<Number(1000)>>)>>,
      <<DefineDescent("down", <<Number(7)>>), Call("down", <<Number(MAX_RECURSION + 1)>>)>>,
      <<DefineDescent("down", <<Number(7)>>), Call("down", <<Number(MAX_RECURSION + 2)>>)>>,
      <<Call("g", <<Text("x")>>) \o <<Op("="), Text("x")>>,
        DefineDescent("deep", Call("g", <<Text("u")>>)),
        Call("deep", <<Number(MAX_RECURSION + 1)>>)>>,
      <<Call("g", <<Text("x")>>) \o <<Op("="), Text("x")>>,
        DefineDescent("deep", Call("g", <<Number(1)>>)),
        Call("deep", <<Number(MAX_RECURSION + 1)>>)>>,
      <<Call("g", <<Text("x")>>) \o <<Op("="), Text("x")>>,
        DefineDescent("deep", Call("g", <<Number(1), Text("u")>>)),
        Call("deep", <<Number(MAX_RECURSION + 1)>>)>> }

\* the lines short programs are made of
Pool ==
    { Call("f", <<Text("x")>>) \o <<Op("="), Text("x"), Op("*"), Number(2)>>,
      Call("f", <<Text("x")>>) \o <<Op("="), Text("x"), Op("*"), Number(3)>>,
      Call("f", <<Text("x")>>) \o <<Op("=")>> \o Call("x", <<Number(1)>>),
      Call("f", <<Text("x"), Text("y")>>) \o <<Op("="), Text("y")>>,
      <<Text("x"), Op("="), Number(23)>>,
      Call("f", <<Number(5)>>),
      Call("f", <<Number(5), Text("u")>>),
      Call("x", <<Number(1)>>),
      <<Text("f")>> }

\* 23 || 42, 0 || 42, 23 && 42, 0 && 42, 5 ? 7 : 9, 0 ? 7 : 9, 2 + 3 || 0
LazyValues ==
    <<Number(23), Op("||"), Number(42), Text(","), Number(0), Op("||"), Number(42), Text(","),
      Number(23), Op("&&"), Number(42), Text(","), Number(0), Op("&&"), Number(42), Text(","),
      Number(5), Op("?"), Number(7), Op(":"), Number(9), Text(","),
      Number(0), Op("?"), Number(7), Op(":"), Number(9), Text(","),
      Number(2), Op("+"), Number(3), Op("||"), Number(0)>>

\* programs of one line without definitions
Lines ==
    { LazyValues,
      <<Number(1), Op("||")>> \o Call("u", <<>>),
      <<Number(0), Op("&&")>> \o Call("u", <<>>),
      <<Number(0), Op("||")>> \o Call("u", <<>>),
      <<Number(1), Op("&&")>> \o Call("u", <<>>),
      <<Text("u"), Op("||"), Number(1)>>,
      <<Number(1), Op("?"), Number(2), Op(":"), Text("u")>>,
      <<Number(0), Op("?"), Text("u"), Op(":"), Number(3)>>,
      <<Number(0), Op("?"), Number(2), Op(":"), Text("u")>>,
      <<Text("u"), Op("?"), Number(2), Op(":"), Number(3)>>,
      Call("u", <<Text("v")>>),
      <<Text("a"), Op("+"), Text("b")>>,
      <<Text("a"), Op("="), Text("b"), Op("+"), Number(1), Text(","), Text("a")>>,
      <<TokenErr(<<str("Invalid numeric constant '"), str("1ee2"), str("'")>>)>>,
      <<Text("sin"), Op("("),
        TokenErr(<<str("Invalid numeric constant '"), str("1ee2"), str("'")>>), Op(")")>>,
      <<Text("max"), Op("("), Number(1)>> }

\* f=1, f(x)=1, f(x,y)=1, 1+1, 1=1, 1+1=1, f(1)=1, f(x(y))=1
DefinitionLines ==
    { <<Text("f"), Op("="), Number(1)>>,
      Call("f", <<Text("x")>>) \o <<Op("="), Number(1)>>,
      Call("f", <<Text("x"), Text("y")>>) \o <<Op("="), Number(1)>>,
      <<Number(1), Op("+"), Number(1)>>,
      <<Number(1), Op("="), Number(1)>>,
      <<Number(1), Op("+"), Number(1), Op("="), Number(1)>>,
      Call("f", <<Number(1)>>) \o <<Op("="), Number(1)>>,
      <<Text("f"), Op("("), Text("x"), Op("("), Text("y"), Op(")"), Op(")"), Op("="), Number(1)>> }

\* a = b, a ? b and a : b of eval_invalid_operators. evaluate meets the tree
\* of a = b as the body of a function, a = b on a line of its own being a
\* definition
InvalidPrograms ==
    { <<<<Text("a"), Op("?"), Text("b")>>>>,
      <<<<Text("a"), Op(":"), Text("b")>>>>,
      <<<<Number(1), Op("="), Text("b")>>>>,
      <<<<Number(1), Op("+"), Op("("), Text("a"), Op("?"), Text("b"), Op(")")>>>>,
      <<<<Text("g"), Op("="), Op("("), Text("a"), Op("="), Text("b"), Op(")")>>, <<Text("g")>>>> }

\* a + b, -a, max(a, b) and f(a, b) with a and b undefined, and f(1, b)
UndefinedPrograms ==
    { <<<<Op("-"), Text("a")>>>>,
      <<<<Text("max"), Op("("), Text("a"), Text(","), Text("b"), Op(")")>>>>,
      <<<<Number(1), Op("+"), Text("b"), Op("+"), Text("a")>>>>,
      <<Call("f", <<Text("x"), Text("y")>>) \o <<Op("="), Text("y")>>,
        Call("f", <<Text("a"), Text("b")>>)>>,
      <<Call("f", <<Text("x"), Text("y")>>) \o <<Op("="), Text("y")>>,
        Call("f", <<Number(1), Text("b")>>)>> }

\* f(x,1)=2, f(x,y(z))=1, f(x,y,1+1)=3 and 1+f(x)=2: no definitions, the first
\* arguments of f being names that a definition accepts
RejectedDefinitions ==
    { <<Call("f", <<Text("x"), Number(1)>>) \o <<Op("="), Number(2)>>>>,
      <<<<Text("f"), Op("("), Text("x"), Text(","), Text("y"), Op("("), Text("z"), Op(")"),
          Op(")"), Op("="), Number(1)>>>>,
      <<<<Text("f"), Op("("), Text("x"), Text(","), Text("y"), Text(","), Number(1), Op("+"),
          Number(1), Op(")"), Op("="), Number(3)>>>>,
      <<<<Number(1), Op("+")>> \o Call("f", <<Text("x")>>) \o <<Op("="), Number(2)>>>> }

\* g = x, f(x) = g, f(5); the same with x = 7 defined; and the functions f, g
\* and h of tests::functions with f(10), f(f(1)), g(2, 3) and h(5)
ScopePrograms ==
    { << <<Text("g"), Op("="), Text("x")>>,
         Call("f", <<Text("x")>>) \o <<Op("="), Text("g")>>,
         Call("f", <<Number(5)>>) >>,
      << <<Text("g"), Op("="), Text("x")>>,
         Call("f", <<Text("x")>>) \o <<Op("="), Text("g")>>,
         <<Text("x"), Op("="), Number(7)>>,
         Call("f", <<Number(5)>>) >>,
      << Call("f", <<Text("x")>>) \o <<Op("="), Text("x"), Op("*"), Number(2)>>,
         Call("g", <<Text("x"), Text("y")>>) \o <<Op("="), Text("x"), Op("*"), Text("y")>>,
         Call("h", <<Text("x")>>) \o <<Op("=")>> \o Call("f", <<Text("x")>>) \o <<Op("+")>>
             \o Call("g", <<Text("x"), Number(3)>>),
         Call("f", <<Number(10)>>),
         <<Text("f"), Op("("), Text("f"), Op("("), Number(1), Op(")"), Op(")")>>,
         Call("g", <<Number(2), Number(3)>>),
         Call("h", <<Number(5)>>) >> }

\* x = 23, f(x) = x*2, f(10), x; and the same with f(x, x) = x and f(1, 2)
ShadowPrograms ==
    { << <<Text("x"), Op("="), Number(23)>>,
         Call("f", <<Text("x")>>) \o <<Op("="), Text("x"), Op("*"), Number(2)>>,
         Call("f", <<Number(10)>>),
         <<Text("x")>> >>,
      << <<Text("x"), Op("="), Number(23)>>,
         Call("f", <<Text("x"), Text("x")>>) \o <<Op("="), Text("x")>>,
         Call("f", <<Number(1), Number(2)>>),
         <<Text("x")>> >> }

\* f = g, f, g = 1, f, g = 2, f; and g = 1, f = g, g = 2, f
LatePrograms ==
    { << <<Text("f"), Op("="), Text("g")>>, <<Text("f")>>,
         <<Text("g"), Op("="), Number(1)>>, <<Text("f")>>,
         <<Text("g"), Op("="), Number(2)>>, <<Text("f")>> >>,
      << <<Text("g"), Op("="), Number(1)>>, <<Text("f"), Op("="), Text("g")>>,
         <<Text("g"), Op("="), Number(2)>>, <<Text("f")>> >> }

\* e = 5, max(a,b) = 1, f(pi) = 1, max(a) = 1, e(x) = 1, and f = 1, e = 5, f
BuiltinDefinitions ==
    { << <<Text("e"), Op("="), Number(5)>> >>,
      << Call("max", <<Text("a"), Text("b")>>) \o <<Op("="), Number(1)>> >>,
      << Call("f", <<Text("pi")>>) \o <<Op("="), Number(1)>> >>,
      << Call("max", <<Text("a")>>) \o <<Op("="), Number(1)>> >>,
      << Call("e", <<Text("x")>>) \o <<Op("="), Number(1)>> >>,
      << <<Text("f"), Op("="), Number(1)>>, <<Text("e"), Op("="), Number(5)>>, <<Text("f")>> >> }

\* longest statement of the exhaustive family of programs
MaxStatement == 4

IsProgram(p) ==
    \/ \E k \in 0..MaxLines : p \in [1..k -> Pool]
    \/ p \in DeepPrograms
    \/ \E l \in Lines : p = <<l>>
    \/ \E l \in TestLines : p = <<l>>
    \/ \E l \in DefinitionLines : p = <<l>>
    \/ p \in InvalidPrograms
    \/ p \in UndefinedPrograms
    \/ p \in RejectedDefinitions
    \/ p \in ScopePrograms
    \/ p \in ShadowPrograms
    \/ p \in LatePrograms
    \/ p \in BuiltinDefinitions
    \/ \E n \in 0..MaxStatement : \E m \in [1..n -> Alphabet] : p = <<Numbered(m)>>

\* the process starts on a program
InitMain ==
    /\ IsProgram(program)
    /\ input = program
    /\ the_tokenizer = new(<<>>)
    /\ line = <<>>
    /\ tokens = <<>>
    /\ pstack = <<>>
    /\ pres = None
    /\ estack = <<>>
    /\ eres = None
    /\ context = [n \in {} |-> None]
    /\ defined = <<>>
    /\ output = <<>>
    /\ pc = "main"

\* longest string of the exhaustive family
MaxChars == 4

CharAlphabet == {"0", "1", "x", "e", ".", "-", "'", " ", "<", "=", "U+00E9", "@"}

\* the strings of the tokenizer's tests, and two more
TestStrings ==
    { <<" ", " ", " ", "h", "e", "l", "l", "o", " ", " ", "t", " ", " ", "-", " ", "%", "@", " ">>,
      <<" ", " ", " ", "'", " ", "a", " ", "b", " ", "'", " ", " ", "\"", "w", "h", "a", "t", "'", "s", " ", "u", "p", "\"", " ", " ", "'", "u", "n", "c", "l", "o", "s", "e", "d", " ">>,
      <<"1", " ", "1", "0", "0", " ", "0", ".", "5", " ", "3", ".", "1", "4", " ", ".", "6", " ", "0", "0", "7", " ", "1", "0", "e", "4", " ", "1", "0", "e", "-", "3">>,
      <<"1", ".", "5", "e", "2", " ", "0", ".", "5", "x", " ", "-", "1", "0", " ", "3", "e", "e", "2", " ", "3", ".", ".", "1", "4">>,
      <<"0", "x", " ", "0", "x", "0", " ", "0", "x", "1", " ", "0", "x", "D", "e", "a", "d", "B", "e", "e", "f", " ", "0", "x", "f", "e", "e", "d", "m", "e">>,
      <<"0", "x", "1", "2", "3", "4", "5", "6", "7", "8", "9", "A", "B", "C", "D", "E", "F", " ", "0", "x", "f", "f", "f", "f", "f", "f", "f", "f", "f", "f", "f", "f", "f", "f", "f", "f">>,
      <<"0", "x", "1", "0", "0", "0", "0", "0", "0", "0", "0", "0", "0", "0", "0", "0", "0", "0", "0", " ", "1">>,
      <<"0", "b", " ", "0", "b", "0", " ", "0", "b", "1", " ", "0", "b", "0", "1", "1", "0", "1", "1", "0", "0", " ", "0", "b", "1", "0", "2">>,
      <<"0", "b", "1", "1", "1", "1", "1", "1", "1", "1", "1", "1", "1", "1", "1", "1", "1", "1", "1", "1", "1", "1", "1", "1", "1", "1", "1", "1", "1", "1", "1", "1", "1", "1", "1", "1", "1", "1", "1", "1", "1", "1", "1", "1", "1", "1", "1", "1", "1", "1", "1", "1", "1", "1", "1", "1", "1", "1", "1", "1", "1", "1", "1", "1", "1", "1">>,
      <<"0", "b", "1", "0", "0", "0", "0", "0", "0", "0", "0", "0", "0", "0", "0", "0", "0", "0", "0", "0", "0", "0", "0", "0", "0", "0", "0", "0", "0", "0", "0", "0", "0", "0", "0", "0", "0", "0", "0", "0", "0", "0", "0", "0", "0", "0", "0", "0", "0", "0", "0", "0", "0", "0", "0", "0", "0", "0", "0", "0", "0", "0", "0", "0", "0", "0", "0", " ", "1">>,
      <<"x", "<", "y", "<", "=", "z", "!", "=">>,
      <<"0", "x", "f", "e", "e", "d", "m", "e">>,
      <<"0", "b", "1", "0", "2">>,
      <<"1", "e", "e", "2">>,
      <<">", ">", ">", "1">>,
      <<">", ">", "1">>,
      <<">", "=", ">">>,
      <<"!", "=", "1">>,
      <<"!", "1">>,
      <<"^", "^", "^">>,
      <<"&", "&", "&", " ", "|", "|", "|">>,
      <<"%", "@", "$">>,
      <<"l", "o", "g", "2", "(", "4", ")">>,
      <<"i", "8", "(", "1", "2", "8", ")">>,
      <<"_", "x", "1", " ", "y", "_", "z">>,
      <<"3", ".", ".", "1", "4">>,
      <<"1", "e", "-">>,
      <<"U+00E9", ">", ">", ">", "=", "U+00E9">> }

\* most leading zeros of the literals of the family below
MaxZeros == 2

\* 0x or 0b, then zeros, then a digit followed by n - 1 zeros
Literal(base, zeros, first, n) ==
    <<"0", IF base = 16 THEN "x" ELSE "b">>
    \o [i \in 1..zeros |-> "0"]
    \o IF n = 0 THEN <<>> ELSE <<first>> \o [i \in 1..(n - 1) |-> "0"]

\* literals around the widths of 32 and 64 bits, as in 0x100000000 and in
\* the strings of the tests hexadecimal and binary
IntegerStrings ==
    { Literal(16, zeros, first, n) :
          zeros \in 0..MaxZeros, first \in {"1", "8", "F"}, n \in {0, 1, 8, 9, 16, 17} }
    \cup { Literal(2, zeros, "1", n) : zeros \in 0..MaxZeros, n \in {0, 1, 32, 33, 64, 65} }

\* a Tokenizer starts on a string
InitTokenizer ==
    /\ \E s \in TestStrings \cup IntegerStrings \cup UNION {[1..n -> CharAlphabet] : n \in 0..MaxChars} :
           the_tokenizer = new(s)
    /\ program = <<>>
    /\ input = <<>>
    /\ line = <<>>
    /\ tokens = <<>>
    /\ pstack = <<>>
    /\ pres = None
    /\ estack = <<>>
    /\ eres = None
    /\ context = [n \in {} |-> None]
    /\ defined = <<>>
    /\ output = <<>>
    /\ pc = "tokenize"

Init == InitMain \/ InitTokenizer

Spec == Init /\ [][Next]_vars

----------------------------------------------------------------------------
(* properties of the whole program, under Spec *)

\* the process has read every line of program p
Final(p) == pc = "main" /\ input = <<>> /\ program = p

\* the one line l was the whole program, and has been run
Ran(l) == Final(<<l>>)

Unknown(name) == Err(<<str("Unknown value "), str(name), str(".")>>)

\* the children a lazy operator may evaluate after its first, given the value
\* of the first
Selected(op, first) ==
    CASE op.name = "||" -> IF first # 0 THEN {} ELSE {1}
      [] op.name = "&&" -> IF first # 0 THEN {1} ELSE {}
      [] op.name = "?:" -> IF first # 0 THEN {1} ELSE {2}

\* C6: || && and ?: evaluate their first child, then at most the one child its
\* value selects, and never the other: 1 || u() is 1 and 0 && u() is 0 though
\* u is undefined
C6_LazyOperands ==
    /\ \A i \in 1..Len(estack) :
           LET a == estack[i] IN
           (a.expression.kind = "Operator" /\ a.expression.op.name \in {"||", "&&", "?:"}) =>
               \/ a.started = <<>>
               \/ a.started = <<0>>
               \/ /\ Len(a.started) = 2
                  /\ a.started[1] = 0
                  /\ a.values # <<>>
                  /\ a.started[2] \in Selected(a.expression.op, a.values[1])
    /\ Ran(<<Number(1), Op("||")>> \o Call("u", <<>>)) => output = <<Ok(1)>>
    /\ Ran(<<Number(0), Op("&&")>> \o Call("u", <<>>)) => output = <<Ok(0)>>
    /\ Ran(<<Number(0), Op("||")>> \o Call("u", <<>>)) => output = <<Unknown("u")>>
    /\ Ran(<<Number(1), Op("&&")>> \o Call("u", <<>>)) => output = <<Unknown("u")>>
    /\ Ran(<<Number(1), Op("?"), Number(2), Op(":"), Text("u")>>) => output = <<Ok(2)>>
    /\ Ran(<<Number(0), Op("?"), Text("u"), Op(":"), Number(3)>>) => output = <<Ok(3)>>
    /\ Ran(<<Number(0), Op("?"), Number(2), Op(":"), Text("u")>>) => output = <<Unknown("u")>>

C6_Witness ==
    /\ Ran(<<Number(1), Op("||")>> \o Call("u", <<>>))
    /\ output = <<Ok(1)>>

C6_WitnessSelected ==
    /\ program = << <<Number(0), Op("?"), Text("u"), Op(":"), Number(3)>> >>
    /\ estack # <<>>
    /\ estack[1].started = <<0, 2>>

Excessive == Err(<<str("Excessive recursion.")>>)

\* the innermost activation is a call of a defined function with the right
\* number of arguments, all of them evaluated
CallReady ==
    /\ IsCall
    /\ etop.expression.name \in DOMAIN context
    /\ Len(etop.expression.args) = Len(context[etop.expression.name].args)
    /\ Len(etop.values) = Len(etop.expression.args)

\* a step ends the evaluation with Excessive recursion. exactly when it is the
\* call of a function from a frame whose counter is above 256
ExcessiveStep ==
    (eres' # eres /\ eres' = Some(Excessive))
    <=> (CallReady /\ etop.frame.recursion_count > 256)

\* the root frame counts 0 and the frame of a function body counts one more
\* than the frame of its call
FramesCount ==
    estack # <<>> =>
        /\ estack[1].frame.recursion_count = 0
        /\ \A i \in 1..(Len(estack) - 1) :
               estack[i + 1].frame.recursion_count =
                   estack[i].frame.recursion_count
                   + IF estack[i].expression.kind = "Function" /\ estack[i].tail THEN 1 ELSE 0

\* C7: a call fails with Excessive recursion. exactly when the counter of the
\* calling frame exceeds 256, the root frame counting 0 and each callee one more
\* than its caller; factorial(10) is 3628800 and factorial(1000) is the error
C7_RecursionLimit ==
    /\ [][ExcessiveStep]_vars
    /\ []FramesCount
    /\ [](Final(<<DefineFactorial, Call("factorial", <<Number(10)>>)>>)
             => output = <<Ok(3628800)>>)
    /\ [](Final(<<DefineFactorial, Call("factorial", <<Number(1000)>>)>>)
             => output = <<Excessive>>)
    /\ [](Final(<<DefineDescent("down", <<Number(7)>>), Call("down", <<Number(257)>>)>>)
             => output = <<Ok(7)>>)
    /\ [](Final(<<DefineDescent("down", <<Number(7)>>), Call("down", <<Number(258)>>)>>)
             => output = <<Excessive>>)

C7_Witness ==
    /\ Final(<<DefineFactorial, Call("factorial", <<Number(1000)>>)>>)
    /\ output = <<Excessive>>

C7_WitnessDeepest ==
    /\ program = <<DefineDescent("down", <<Number(7)>>), Call("down", <<Number(257)>>)>>
    /\ estack # <<>>
    /\ etop.frame.recursion_count = 257

\* the run has nothing left to do: every line is read, or the string is tokenized
Ended == (pc = "main" /\ input = <<>>) \/ pc = "tokenized"

Returned(r) == r.some => r.value.kind \in {"Ok", "Err"}

\* C8: tokenizing, parsing, definition extraction and evaluation end in an Ok
\* or an Err value and never abort the process: no child index is out of
\* bounds, the final pop of parse finds a value, ternary fusion finds two
\* children to remove, no slice leaves the input or splits a character; and
\* until the run has ended the next call returns and the next step exists
C8_NoAbort ==
    /\ pc # "aborted"
    /\ Returned(pres)
    /\ Returned(eres)
    /\ \A i \in DOMAIN output : output[i].kind \in {"Ok", "Err"}
    /\ (pc = "parsed" /\ pres.value.kind = "Ok") =>
           deconstruct_function_definition(pres.value.value).result.kind = "Ok"
    /\ pc = "tokenize" => Returned(next(the_tokenizer).item)
    /\ (~Ended /\ pc # "tokenize") => ENABLED (NextParse \/ NextEval \/ NextLine)

\* 1 ? ':'(2,3): the : node made by push_symbol is fused with ? into ?:(1,2,3),
\* which selects its second child
C8_Witness ==
    /\ Ran(<<Number(1), Op("?"), Text(":"), Op("("), Number(2), Text(","), Number(3), Op(")")>>)
    /\ output = <<Ok(2)>>

\* the slices of U+00E9 >>>= U+00E9 end on character boundaries
C8_WitnessSlice ==
    /\ pc = "tokenized"
    /\ the_tokenizer.input = <<"U+00E9", ">", ">", ">", "=", "U+00E9">>
    /\ tokens = <<Text("U+00E9"), Op(">>>"), Op("="), Text("U+00E9")>>

UseOf(name) ==
    Err(<<str("Use of "), str(name), str("() as first class function is not supported.")>>)

WrongArguments(name, expected, got) ==
    Err(<<str("Wrong number of arguments for "), str(name), str("(): expected "),
          num(expected), str(" but got "), num(got), str(".")>>)

\* what one step of the evaluation of a Function node does, check by check
ChecksInOrder ==
    IsFunction =>
        LET name == etop.expression.name
            args == etop.expression.args
            frame == etop.frame
            bound == \E i \in DOMAIN frame.local_names : frame.local_names[i] = name
        IN  IF bound
            THEN IF args # <<>>
                 THEN eres' = Some(UseOf(name))
                 ELSE eres' = eres \/ (eres'.some /\ eres'.value.kind = "Ok")
            ELSE IF name \notin DOMAIN context
                 THEN eres' = Some(Unknown(name))
                 ELSE IF Len(args) # Len(context[name].args)
                      THEN /\ eres' = Some(WrongArguments(name, Len(context[name].args), Len(args)))
                           /\ etop.started = <<>>
                      ELSE IF Len(etop.values) < Len(args)
                           THEN /\ eres' = eres
                                /\ Len(estack') = Len(estack) + 1
                                /\ Last(estack').expression = args[Len(etop.values) + 1]
                                /\ Last(estack').frame = frame
                           ELSE IF frame.recursion_count > 256
                                THEN eres' = Some(Excessive)
                                ELSE /\ eres' = eres
                                     /\ Len(estack') = Len(estack) + 1
                                     /\ Last(estack').expression = context[name].expression

DefineX == <<Text("x"), Op("="), Number(23)>>

DefineDouble == Call("f", <<Text("x")>>) \o <<Op("="), Text("x"), Op("*"), Number(2)>>

DefineTriple == Call("f", <<Text("x")>>) \o <<Op("="), Text("x"), Op("*"), Number(3)>>

DefineSecond == Call("f", <<Text("x"), Text("y")>>) \o <<Op("="), Text("y")>>

\* deep(257) calls `last` from a frame whose counter is 257
Deep(last) ==
    <<Call("g", <<Text("x")>>) \o <<Op("="), Text("x")>>,
      DefineDescent("deep", last),
      Call("deep", <<Number(257)>>)>>

\* C9: a Function node is decided by the first check that fails, in the order:
\* a bound parameter used with arguments, a name the Context does not have, a
\* wrong number of arguments (before any argument is evaluated), a failing
\* argument, a calling frame above the ceiling
C9_ChecksInOrder ==
    /\ [][ChecksInOrder]_vars
    /\ [](Final(<<DefineX, Call("f", <<Text("x")>>) \o <<Op("=")>> \o Call("x", <<Number(1)>>),
                  Call("f", <<Number(5)>>)>>)
             => output = <<UseOf("x")>>)
    /\ [](Final(<<DefineX, Call("x", <<Number(1)>>)>>)
             => output = <<WrongArguments("x", 0, 1)>>)
    /\ [](Ran(Call("u", <<Text("v")>>)) => output = <<Unknown("u")>>)
    /\ [](Final(<<DefineDouble, Call("f", <<Number(5), Text("u")>>)>>)
             => output = <<WrongArguments("f", 1, 2)>>)
    /\ [](Final(<<DefineSecond, Call("f", <<Number(5)>>)>>)
             => output = <<WrongArguments("f", 2, 1)>>)
    /\ [](Final(Deep(Call("g", <<Number(1), Text("u")>>)))
             => output = <<WrongArguments("g", 1, 2)>>)
    /\ [](Final(Deep(Call("g", <<Text("u")>>))) => output = <<Unknown("u")>>)
    /\ [](Final(Deep(Call("g", <<Number(1)>>))) => output = <<Excessive>>)

\* f(x) = x(1) with x also defined as a function of no parameters: the use of
\* the bound x decides
C9_Witness ==
    /\ Final(<<DefineX, Call("f", <<Text("x")>>) \o <<Op("=")>> \o Call("x", <<Number(1)>>),
               Call("f", <<Number(5)>>)>>)
    /\ output = <<UseOf("x")>>

\* the failing argument of g(u) decides in a frame above the ceiling
C9_WitnessArgument ==
    /\ Final(Deep(Call("g", <<Text("u")>>)))
    /\ output = <<Unknown("u")>>

\* the definition made last under each name
MostRecent(name) ==
    defined[CHOOSE i \in DOMAIN defined :
                /\ defined[i].name = name
                /\ \A j \in (i + 1)..Len(defined) : defined[j].name # name].function

\* the Context holds the most recent definition of every name defined so far
ContextIsMostRecent ==
    /\ DOMAIN context = {defined[i].name : i \in DOMAIN defined}
    /\ \A name \in DOMAIN context : context[name] = MostRecent(name)

\* a call enters the body and the parameter list of the most recent definition
CallsMostRecent ==
    (IsCall /\ Len(estack') = Len(estack) + 1 /\ estack'[Len(estack)].tail) =>
        /\ Last(estack').expression = MostRecent(etop.expression.name).expression
        /\ Last(estack').frame.local_names = MostRecent(etop.expression.name).args

\* C10: a definition under a name that exists replaces body and parameter list,
\* and a call uses the most recent definition: f(x)=x*2 then f(x)=x*3 makes
\* f(5) 15
C10_RedefinitionReplaces ==
    /\ []ContextIsMostRecent
    /\ [][CallsMostRecent]_vars
    /\ [](Final(<<DefineDouble, DefineTriple, Call("f", <<Number(5)>>)>>) => output = <<Ok(15)>>)
    /\ [](Final(<<DefineTriple, DefineDouble, Call("f", <<Number(5)>>)>>) => output = <<Ok(10)>>)
    /\ [](Final(<<DefineSecond, DefineTriple, Call("f", <<Number(5)>>)>>) => output = <<Ok(15)>>)
    /\ [](Final(<<DefineDouble, DefineSecond, Call("f", <<Number(5)>>)>>)
             => output = <<WrongArguments("f", 2, 1)>>)

C10_Witness ==
    /\ Final(<<DefineDouble, DefineTriple, Call("f", <<Number(5)>>)>>)
    /\ output = <<Ok(15)>>

\* the second definition has replaced the first in the Context
C10_WitnessReplaced ==
    /\ Len(defined) = 2
    /\ defined[1].name = defined[2].name
    /\ defined[1].function # defined[2].function
    /\ context[defined[2].name] = defined[2].function

\* the tree is name(p1, ..., pn) = body with bare names p1 .. pn
IsDefinition(tree) ==
    /\ tree.kind = "Operator"
    /\ tree.op.name = "="
    /\ tree.args[1].kind = "Function"
    /\ \A i \in DOMAIN tree.args[1].args :
           /\ tree.args[1].args[i].kind = "Function"
           /\ tree.args[1].args[i].args = <<>>

\* the definition such a tree carries
Definition(tree) ==
    [name |-> tree.args[1].name,
     function |-> [expression |-> tree.args[2],
                   args |-> [i \in DOMAIN tree.args[1].args |-> tree.args[1].args[i].name]]]

\* the step after a successful parse defines exactly the definition of the
\* tree when it is one, and otherwise evaluates the tree and defines nothing
DefinitionStep ==
    (pc = "parsed" /\ pres.value.kind = "Ok") =>
        IF IsDefinition(pres.value.value)
        THEN /\ defined' = Append(defined, Definition(pres.value.value))
             /\ context'[Definition(pres.value.value).name] =
                    Definition(pres.value.value).function
             /\ estack' = estack
        ELSE /\ defined' = defined
             /\ context' = context
             /\ estack' = <<RootActivation(pres.value.value)>>

InvalidUse(name) == Err(<<str("Invalid use of "), str(name), str(" operator.")>>)

\* the one line l has defined exactly function under name
Defines(l, name, function) ==
    Ran(l) => (output = <<>> /\ defined = <<[name |-> name, function |-> function]>>)

\* C11: deconstruct_function_definition returns a definition exactly for a tree
\* = whose left child is a Function node with only bare names as children, and
\* it carries the name, the parameter names in order and the right child as
\* body: f=1, f(x)=1 and f(x,y)=1 are definitions, 1+1, 1=1, 1+1=1, f(1)=1 and
\* f(x(y))=1 are not
C11_DefinitionShape ==
    /\ [][DefinitionStep]_vars
    /\ [](Defines(<<Text("f"), Op("="), Number(1)>>, "f",
                  [expression |-> Constant(1), args |-> <<>>]))
    /\ [](Defines(Call("f", <<Text("x")>>) \o <<Op("="), Number(1)>>, "f",
                  [expression |-> Constant(1), args |-> <<"x">>]))
    /\ [](Defines(Call("f", <<Text("x"), Text("y")>>) \o <<Op("="), Number(1)>>, "f",
                  [expression |-> Constant(1), args |-> <<"x", "y">>]))
    /\ [](Ran(<<Number(1), Op("+"), Number(1)>>) => (defined = <<>> /\ output = <<Ok(2)>>))
    /\ [](\A l \in { <<Number(1), Op("="), Number(1)>>,
                     <<Number(1), Op("+"), Number(1), Op("="), Number(1)>>,
                     Call("f", <<Number(1)>>) \o <<Op("="), Number(1)>>,
                     <<Text("f"), Op("("), Text("x"), Op("("), Text("y"), Op(")"), Op(")"),
                       Op("="), Number(1)>> } :
             Ran(l) => (defined = <<>> /\ output = <<InvalidUse("=")>>))

\* f(x,y)=1 has been defined
C11_Witness ==
    /\ Ran(Call("f", <<Text("x"), Text("y")>>) \o <<Op("="), Number(1)>>)
    /\ defined = <<[name |-> "f", function |-> [expression |-> Constant(1), args |-> <<"x", "y">>]]>>

\* f(x(y))=1 has been evaluated, not defined
C11_WitnessNot ==
    /\ Ran(<<Text("f"), Op("("), Text("x"), Op("("), Text("y"), Op(")"), Op(")"), Op("="), Number(1)>>)
    /\ defined = <<>>
    /\ output = <<InvalidUse("=")>>

\* parse has returned the error r
Failed(r) == pc = "parsed" /\ pres = Some(r)

\* the registry entry of a name
Entry(name) == OPERATORS[CHOOSE i \in DOMAIN OPERATORS : OPERATORS[i].name = name]

IsEntry(name) == \E i \in DOMAIN OPERATORS : OPERATORS[i].name = name

\* a symbol named name has got its arguments args: the registry decides
SymbolDecided(name, args) ==
    IsEntry(name) =>
        IF Len(args) # Entry(name).arity
        THEN /\ pc' = "parsed"
             /\ pres' = Some(WrongArguments(name, Entry(name).arity, Len(args)))
        ELSE /\ pc' = "parse"
             /\ Len(pstack') = Len(pstack)
             /\ Last(pstack').parser.current = Some(Operator(Entry(name), args))

\* the step that ends a symbol: a bare name, or the ) of its argument list
SymbolStep ==
    /\ (/\ InParseLoop
        /\ ~finished.finished
        /\ tokens # <<>>
        /\ Head(tokens).type = "Text"
        /\ ~top.parser.current.some
        /\ ~peek_operator(Tail(tokens), "("))
       => SymbolDecided(Head(tokens).text, <<>>)
    /\ (InArguments /\ peek_operator(tokens, ")"))
       => SymbolDecided(top.symbol.value, top.args)

\* C12: a symbol that names a registry entry fails with Wrong number of
\* arguments for <name>(): expected <arity> but got <count>. whenever the count
\* of its arguments differs from the arity, a bare name counting as none, and
\* becomes an Operator node only when they are equal
C12_RegistryArity ==
    /\ [][SymbolStep]_vars
    /\ [](Parsed(<<Text("max"), Op("("), Number(1), Op(")")>>)
             => Failed(WrongArguments("max", 2, 1)))
    /\ [](Parsed(<<Text("max")>>) => Failed(WrongArguments("max", 2, 0)))
    /\ [](Parsed(<<Text("e"), Op("("), Number(1), Op(")")>>)
             => Failed(WrongArguments("e", 0, 1)))
    /\ [](Parsed(<<Text("e")>>) => Tree(Operator(Entry("e"), <<>>)))
    /\ [](Parsed(<<Text("max"), Op("("), Number(1), Text(","), Number(2), Op(")")>>)
             => Tree(Operator(Entry("max"), <<Constant(1), Constant(2)>>)))

\* max(1) has failed
C12_Witness ==
    /\ Parsed(<<Text("max"), Op("("), Number(1), Op(")")>>)
    /\ Failed(WrongArguments("max", 2, 1))

\* e(1) has failed with more arguments than the arity
C12_WitnessMore ==
    /\ Parsed(<<Text("e"), Op("("), Number(1), Op(")")>>)
    /\ Failed(WrongArguments("e", 0, 1))

Expecting(token) ==
    Err(<<str("Invalid expression: expecting operator but got '"), token, str("'.")>>)

\* parse is about to take a number or a symbol from the stream
ValueArrives ==
    /\ InParseLoop
    /\ ~finished.finished
    /\ tokens # <<>>
    /\ Head(tokens).type \in {"Number", "Text"}

\* the token as the message shows it
Shown(token) == IF token.type = "Number" THEN num(token.number) ELSE str(token.text)

\* a value that arrives at an occupied slot ends parse with the error, whatever
\* follows it, and the error has no other cause
ValueStep ==
    /\ (ValueArrives /\ top.parser.current.some) =>
           /\ pc' = "parsed"
           /\ pres' = Some(Expecting(Shown(Head(tokens))))
           /\ tokens' = Tail(tokens)
    /\ (/\ pres' # pres
        /\ pres'.value.kind = "Err"
        /\ Head(pres'.value.error) = str("Invalid expression: expecting operator but got '"))
       => (ValueArrives /\ top.parser.current.some)

\* C13: a number or a symbol that arrives while the current value is occupied
\* fails with Invalid expression: expecting operator but got '<token>'. (1 2,
\* e pi, foo() bar()), and a symbol is refused before its argument list is read
C13_ExpectingOperator ==
    /\ [][ValueStep]_vars
    /\ [](Parsed(<<Number(1), Number(2)>>) => Failed(Expecting(num(2))))
    /\ [](Parsed(<<Text("e"), Text("pi")>>) => Failed(Expecting(str("pi"))))
    /\ [](Parsed(<<Text("foo"), Op("("), Op(")"), Text("bar"), Op("("), Op(")")>>)
             => (Failed(Expecting(str("bar"))) /\ tokens = <<Op("("), Op(")")>>))
    /\ [](Parsed(<<Number(1), Text("max"), Op("(")>>)
             => (Failed(Expecting(str("max"))) /\ tokens = <<Op("(")>>))

\* foo() bar() has failed at bar, its argument list unread
C13_Witness ==
    /\ Parsed(<<Text("foo"), Op("("), Op(")"), Text("bar"), Op("("), Op(")")>>)
    /\ Failed(Expecting(str("bar")))
    /\ tokens = <<Op("("), Op(")")>>

\* 1 2 has failed at 2
C13_WitnessNumber ==
    /\ Parsed(<<Number(1), Number(2)>>)
    /\ Failed(Expecting(num(2)))

InvalidExpression(what) == Err(<<str("Invalid expression: " \o what)>>)

\* the error names an operator that lacks an operand
IsMissingOperand(r) ==
    /\ r.kind = "Err"
    /\ Head(r.error) \in {str("Invalid expression: unary "), str("Invalid expression: binary ")}

\* parse fails on this step with the error `what`, unless an operator that
\* is reduced first lacks an operand
FailsWith(what) ==
    /\ pc' = "parsed"
    /\ pres' = Some(InvalidExpression(what)) \/ IsMissingOperand(pres'.value)

\* parse is about to push a ) operator
CloseArrives ==
    /\ InParseLoop
    /\ ~finished.finished
    /\ tokens # <<>>
    /\ Head(tokens) = Op(")")

HasOpen(parser) == \E i \in DOMAIN parser.stack : parser.stack[i].op.name = "("

\* the innermost ( of the stack
Innermost(parser) ==
    parser.stack[CHOOSE i \in DOMAIN parser.stack :
                     /\ parser.stack[i].op.name = "("
                     /\ \A j \in (i + 1)..Len(parser.stack) : parser.stack[j].op.name # "("]

\* the parentheses of a token sequence match
Balanced(s) ==
    LET opens(k) == Cardinality({i \in 1..k : s[i] = Op("(")})
        closes(k) == Cardinality({i \in 1..k : s[i] = Op(")")})
    IN  /\ \A k \in 1..Len(s) : closes(k) <= opens(k)
        /\ closes(Len(s)) = opens(Len(s))

\* the tokens parse has taken from the line
Consumed == SubSeq(line, 1, Len(line) - Len(tokens))

ParenthesisStep ==
    /\ (CloseArrives /\ ~HasOpen(top.parser)) => FailsWith("too many close parentheses.")
    /\ (pres' # pres /\ pres' = Some(InvalidExpression("too many close parentheses.")))
       => (CloseArrives /\ ~HasOpen(top.parser))
    /\ (InParseLoop /\ (finished.finished \/ tokens = <<>>) /\ HasOpen(top.parser))
       => FailsWith("unexpected end of input.")
    /\ (/\ CloseArrives
        /\ top.parser.stack # <<>>
        /\ Last(top.parser.stack).op.name = "("
        /\ ~Last(top.parser.stack).value.some
        /\ ~top.parser.current.some)
       => (pc' = "parsed" /\ pres' = Some(InvalidExpression("unexpected close parenthesis.")))
    /\ (CloseArrives /\ HasOpen(top.parser) /\ Innermost(top.parser).value.some)
       => FailsWith("unexpected open parenthesis.")

C14_WitnessOpen ==
    /\ Parsed(<<Op("("), Number(2)>>)
    /\ Failed(InvalidExpression("unexpected end of input."))

\* a line with grouping parentheses has been parsed
C14_WitnessBalanced ==
    /\ Parsed(<<Op("("), Number(1), Op("+"), Number(2), Op(")"), Op("*"), Number(3)>>)
    /\ pres.value.kind = "Ok"

\* the error of an operator reduced without its operand
MissingOperand(kind, name) ==
    Err(<<str("Invalid expression: " \o kind \o " "), str(name),
          str(" operator is missing an operand.")>>)

RECURSIVE Scan(_, _, _, _)
\* the tokens of s from the i-th on continue an expression in which every
\* operator has its operands. mode is "want" where an operand has to come,
\* "start" at the start of an argument, where the list may also close, and
\* "have" after an operand; open lists the parentheses still open
Scan(s, i, mode, open) ==
    IF i > Len(s)
    THEN mode = "have" /\ open = <<>>
    ELSE LET t == s[i] IN
         CASE t.type = "Number" -> mode # "have" /\ Scan(s, i + 1, "have", open)
           [] t = Text(",") ->
                /\ mode = "have"
                /\ IF open = <<>>
                   THEN i = Len(s)
                   ELSE Last(open) = "args" /\ Scan(s, i + 1, "start", open)
           [] t.type = "Text" /\ t # Text(",") ->
                /\ mode # "have"
                /\ IF i < Len(s) /\ s[i + 1] = Op("(")
                   THEN Scan(s, i + 2, "start", Append(open, "args"))
                   ELSE Scan(s, i + 1, "have", open)
           [] t = Op("(") -> mode # "have" /\ Scan(s, i + 1, "want", Append(open, "group"))
           [] t = Op(")") ->
                /\ open # <<>>
                /\ \/ mode = "have"
                   \/ mode = "start" /\ Last(open) = "args"
                /\ Scan(s, i + 1, "have", Front(open))
           [] t.type = "Operator" /\ t.op.name \notin {"(", ")"} ->
                IF t.op.arity = 1 \/ (t.op.name = "-" /\ mode # "have")
                THEN mode # "have" /\ Scan(s, i + 1, "want", open)
                ELSE mode = "have" /\ Scan(s, i + 1, "want", open)
           [] OTHER -> FALSE

\* no operator of s lacks an operand
Proper(s) == Scan(s, 1, "want", <<>>)

\* the operator that parse is about to push: the next token or, at the end
\* of the statement, the terminator
Incoming ==
    IF finished.finished
    THEN TERMINATOR
    ELSE IF Head(tokens).op.name = "-" /\ ~top.parser.current.some
         THEN NEGATE
         ELSE Head(tokens).op

\* the push that parse is about to make reduces the operator on top of the stack
ReducesTop ==
    /\ InParseLoop
    /\ \/ finished.finished /\ top.parser.current.some
       \/ ~finished.finished /\ tokens # <<>> /\ Head(tokens).type = "Operator"
    /\ top.parser.stack # <<>>
    /\ LET reduced == Last(top.parser.stack).op IN
       /\ reduced.arity \in {1, 2}
       /\ Incoming.name # "("
       /\ ~(reduced.arity # 1 /\ Incoming.arity = 1)
       /\ Rank(Incoming) < Rank(reduced)
                             + (IF reduced.arity # 1 /\ ~reduced.is_right_associative
                                THEN 1 ELSE 0)

OperandStep ==
    LET reduced == Last(top.parser.stack)
        current == top.parser.current
    IN  /\ (ReducesTop /\ reduced.op.arity = 1 /\ (~current.some \/ reduced.value.some))
           => (pc' = "parsed" /\ pres' = Some(MissingOperand("unary", reduced.op.name)))
        /\ (ReducesTop /\ reduced.op.arity = 2 /\ (~current.some \/ ~reduced.value.some))
           => (pc' = "parsed" /\ pres' = Some(MissingOperand("binary", reduced.op.name)))
        /\ (InParseLoop /\ (finished.finished \/ tokens = <<>>) /\ ~current.some)
           => (pc' = "parsed"
               /\ pres' = Some(InvalidExpression("unexpected end of input.")))
        /\ (pres' # pres /\ IsMissingOperand(pres'.value))
           => \E i \in DOMAIN top.parser.stack :
                 \/ /\ top.parser.stack[i].op.arity = 1
                    /\ pres'.value = MissingOperand("unary", top.parser.stack[i].op.name)
                 \/ /\ top.parser.stack[i].op.arity = 2
                    /\ pres'.value = MissingOperand("binary", top.parser.stack[i].op.name)

\* C15: parse returns Ok only for tokens in which every operator has its
\* operands. A unary operator reduced with no operand or with a left operand
\* fails with `unary <op> operator is missing an operand`, a binary operator
\* reduced with either operand absent fails with `binary <op> operator is
\* missing an operand`, and a statement that is empty or ends right after an
\* operator fails with `unexpected end of input`
C15_OperatorNeedsOperands ==
    /\ []((pc = "parsed" /\ pres.value.kind = "Ok") => Proper(Consumed))
    /\ [][OperandStep]_vars
    /\ [](Parsed(<<Op("!"), Op("+")>>) => Failed(MissingOperand("unary", "!")))
    /\ [](Parsed(<<Op("+"), Op("+")>>) => Failed(MissingOperand("binary", "+")))
    /\ [](Parsed(<<Number(1), Op("!"), Number(3)>>) => Failed(MissingOperand("unary", "!")))
    /\ [](Parsed(<<Number(1), Op("*"), Op("+"), Number(2)>>)
             => Failed(MissingOperand("binary", "*")))
    /\ [](Parsed(<<Text("x"), Op("+")>>)
             => Failed(InvalidExpression("unexpected end of input.")))
    /\ [](Parsed(<<>>) => Failed(InvalidExpression("unexpected end of input.")))

\* 1 ! 3 has failed when the ! that holds a left operand was reduced
C15_Witness ==
    /\ Parsed(<<Number(1), Op("!"), Number(3)>>)
    /\ Failed(MissingOperand("unary", "!"))

\* ++ has failed when the first + was reduced without operands
C15_WitnessBinary ==
    /\ Parsed(<<Op("+"), Op("+")>>)
    /\ Failed(MissingOperand("binary", "+"))

\* x+ has failed at the end of the statement
C15_WitnessEnd ==
    /\ Parsed(<<Text("x"), Op("+")>>)
    /\ Failed(InvalidExpression("unexpected end of input."))

\* an activation of eval on an Operator node of the Invalid strategy
IsInvalidUse(activation) ==
    /\ activation.expression.kind = "Operator"
    /\ activation.expression.op.function = "Invalid"

\* the activation fails on its first step, and only such an activation
\* produces the error
InvalidStep ==
    /\ (InEval /\ IsInvalidUse(etop))
       => (estack' = <<>> /\ eres' = Some(InvalidUse(etop.expression.op.name)))
    /\ (eres' # eres /\ eres'.some /\ eres'.value.kind = "Err"
        /\ Head(eres'.value.error) = str("Invalid use of "))
       => (InEval /\ IsInvalidUse(etop)
           /\ eres' = Some(InvalidUse(etop.expression.op.name)))

\* eval has been called on no child of such an activation
NoChildEvaluated ==
    \A i \in DOMAIN estack :
        IsInvalidUse(estack[i]) =>
            (i = Len(estack) /\ estack[i].started = <<>> /\ estack[i].values = <<>>)

\* C16: evaluating an Operator node of the Invalid strategy fails with
\* `Invalid use of <name> operator.` and evaluates none of its children: this
\* is the fate of an = that is not a definition, of a ? without : and of a :
\* without ?, even when their operands are undefined names
C16_InvalidUse ==
    /\ [][InvalidStep]_vars
    /\ []NoChildEvaluated
    /\ [](\A name \in {"=", "?", ":"} : Entry(name).function = "Invalid")
    /\ [](Ran(<<Text("a"), Op("?"), Text("b")>>) => output = <<InvalidUse("?")>>)
    /\ [](Ran(<<Text("a"), Op(":"), Text("b")>>) => output = <<InvalidUse(":")>>)
    /\ [](Ran(<<Number(1), Op("="), Text("b")>>) => output = <<InvalidUse("=")>>)
    /\ [](Ran(<<Number(1), Op("+"), Op("("), Text("a"), Op("?"), Text("b"), Op(")")>>)
             => output = <<InvalidUse("?")>>)
    /\ [](Final(<<<<Text("g"), Op("="), Op("("), Text("a"), Op("="), Text("b"), Op(")")>>,
                  <<Text("g")>>>>)
             => (/\ defined = <<[name |-> "g",
                                 function |-> [expression |->
                                                  Binary(Entry("="), Function("a", <<>>),
                                                         Function("b", <<>>)),
                                               args |-> <<>>]]>>
                 /\ output = <<InvalidUse("=")>>))

\* a = b, the body of g, has been evaluated with a and b undefined
C16_Witness ==
    /\ Final(<<<<Text("g"), Op("="), Op("("), Text("a"), Op("="), Text("b"), Op(")")>>,
               <<Text("g")>>>>)
    /\ output = <<InvalidUse("=")>>
    /\ DOMAIN context = {"g"}

\* a ? b has been evaluated
C16_WitnessTernary ==
    /\ Ran(<<Text("a"), Op("?"), Text("b")>>)
    /\ output = <<InvalidUse("?")>>

\* eval stands on the node a ? b below the node +
C16_WitnessNested ==
    /\ InEval
    /\ Len(estack) = 2
    /\ IsInvalidUse(etop)

\* the top-level parse stands before a comma
CommaArrives ==
    /\ InParseLoop
    /\ Len(pstack) = 1
    /\ tokens # <<>>
    /\ Head(tokens) = Text(",")

\* parse returns on that step, having taken the comma and nothing more
CommaStep == CommaArrives => (pc' = "parsed" /\ tokens' = Tail(tokens))

\* what is left of the stream is the end of the line
Unread == tokens = SubSeq(line, Len(line) - Len(tokens) + 1, Len(line))

\* the i-th token of s stands outside every pair of parentheses
Outside(s, i) ==
    Cardinality({j \in 1..(i - 1) : s[j] = Op("(")})
        = Cardinality({j \in 1..(i - 1) : s[j] = Op(")")})

\* the first comma of the line that is outside parentheses, or 0
FirstComma ==
    IF \E i \in DOMAIN line : line[i] = Text(",") /\ Outside(line, i)
    THEN CHOOSE i \in DOMAIN line :
             /\ line[i] = Text(",") /\ Outside(line, i)
             /\ \A j \in 1..(i - 1) : ~(line[j] = Text(",") /\ Outside(line, j))
    ELSE 0

\* the constants of a tree, and the numbers of a token sequence
Constants(tree) == {n.value : n \in {m \in Nodes(tree) : m.kind = "Constant"}}
Numbers(s) == {s[i].number : i \in {j \in DOMAIN s : s[j].type = "Number"}}

\* a tree was returned: it is the tree of the tokens before the first comma,
\* or of the line when there is none, and the tokens after the comma are unread
StatementRead ==
    (pc = "parsed" /\ pres.value.kind = "Ok") =>
        /\ Len(Consumed) = (IF FirstComma = 0 THEN Len(line) ELSE FirstComma)
        /\ Constants(pres.value.value) = Numbers(Consumed)

\* C17: at top level parse reads the tokens up to and including the first
\* comma, returns the tree of what preceded it and leaves every later token
\* unread: 1+2,3 yields +(1,2) and the stream then holds exactly 3
C17_CommaTerminates ==
    /\ [][CommaStep]_vars
    /\ []Unread
    /\ []StatementRead
    /\ [](Parsed(<<Number(1), Op("+"), Number(2), Text(","), Number(3)>>)
             => (/\ Tree(Binary(Entry("+"), Constant(1), Constant(2)))
                 /\ tokens = <<Number(3)>>))
    /\ [](Parsed(<<Text("max"), Op("("), Number(1), Text(","), Number(2), Op(")"), Text(","),
                   Number(3), Text(","), Number(4)>>)
             => (/\ Tree(Binary(Entry("max"), Constant(1), Constant(2)))
                 /\ tokens = <<Number(3), Text(","), Number(4)>>))

\* 1+2,3 has been parsed up to its comma
C17_Witness ==
    /\ Parsed(<<Number(1), Op("+"), Number(2), Text(","), Number(3)>>)
    /\ Tree(Binary(Entry("+"), Constant(1), Constant(2)))
    /\ tokens = <<Number(3)>>

\* max(1,2),3,4 has been parsed up to its first comma outside the arguments
C17_WitnessArguments ==
    /\ Parsed(<<Text("max"), Op("("), Number(1), Text(","), Number(2), Op(")"), Text(","),
                Number(3), Text(","), Number(4)>>)
    /\ pres.value.kind = "Ok"
    /\ Len(tokens) = 3

\* the binary digits of the digits of each base
Nibble ==
    "0" :> <<0, 0, 0, 0>> @@ "1" :> <<0, 0, 0, 1>> @@ "2" :> <<0, 0, 1, 0>> @@
    "3" :> <<0, 0, 1, 1>> @@ "4" :> <<0, 1, 0, 0>> @@ "5" :> <<0, 1, 0, 1>> @@
    "6" :> <<0, 1, 1, 0>> @@ "7" :> <<0, 1, 1, 1>> @@ "8" :> <<1, 0, 0, 0>> @@
    "9" :> <<1, 0, 0, 1>> @@ "a" :> <<1, 0, 1, 0>> @@ "b" :> <<1, 0, 1, 1>> @@
    "c" :> <<1, 1, 0, 0>> @@ "d" :> <<1, 1, 0, 1>> @@ "e" :> <<1, 1, 1, 0>> @@
    "f" :> <<1, 1, 1, 1>> @@ "A" :> <<1, 0, 1, 0>> @@ "B" :> <<1, 0, 1, 1>> @@
    "C" :> <<1, 1, 0, 0>> @@ "D" :> <<1, 1, 0, 1>> @@ "E" :> <<1, 1, 1, 0>> @@
    "F" :> <<1, 1, 1, 1>>

DigitsOf(base) == IF base = 16 THEN DOMAIN Nibble ELSE {"0", "1"}

\* the string starts with 0x or 0b
StartsLiteral(s) == Len(s) >= 2 /\ s[1] = "0" /\ s[2] \in {"x", "b"}

BaseOf(s) == IF s[2] = "x" THEN 16 ELSE 2

\* the digits of the literal s starts with: the longest run after the prefix
DigitRun(s) ==
    LET n == CHOOSE k \in 0..(Len(s) - 2) :
                 /\ \A i \in 3..(2 + k) : s[i] \in DigitsOf(BaseOf(s))
                 /\ (2 + k < Len(s) => s[3 + k] \notin DigitsOf(BaseOf(s)))
    IN  SubSeq(s, 3, 2 + n)

RECURSIVE BitsOf(_, _)
BitsOf(digits, base) ==
    IF digits = <<>>
    THEN <<>>
    ELSE (IF base = 16 THEN Nibble[Head(digits)] ELSE <<Nibble[Head(digits)][4]>>)
         \o BitsOf(Tail(digits), base)

\* a binary numeral from its first 1 on
Significant(bits) ==
    IF \A i \in DOMAIN bits : bits[i] = 0
    THEN <<>>
    ELSE SubSeq(bits, CHOOSE i \in DOMAIN bits : bits[i] = 1 /\ \A j \in 1..(i - 1) : bits[j] = 0,
                Len(bits))

\* the value of the literal the string starts with, in binary
LiteralValue(s) == Significant(BitsOf(DigitRun(s), BaseOf(s)))

Overflowed(base, range) == <<str("Base "), num(base), str(" constant overflowed " \o range)>>

\* the first token of a string that starts with a literal: the error
\* `Base <n> constant overflowed <range>` when the value needs more than width
\* bits, and a token otherwise
IntegerStep(width, range) ==
    (pc = "tokenize" /\ tokens = <<>> /\ StartsLiteral(the_tokenizer.input)) =>
        /\ Len(tokens') = 1
        /\ IF Len(LiteralValue(the_tokenizer.input)) > width
           THEN tokens'[1] = TokenErr(Overflowed(BaseOf(the_tokenizer.input), range))
           ELSE tokens'[1].type # "Err"

\* the string has been tokenized
Tokenized(s) == pc = "tokenized" /\ the_tokenizer.input = s

C18_WitnessAccepted ==
    /\ Tokenized(Literal(16, 0, "1", 9))
    /\ Len(tokens) = 1
    /\ tokens[1].type = "Integer"

RECURSIVE ValueOf(_)
\* the integer of a binary numeral
ValueOf(bits) == IF bits = <<>> THEN 0 ELSE 2 * ValueOf(Front(bits)) + Last(bits)

\* the first token of a string that starts with a literal of at most 16 bits
\* is the Number of the value of its digits
NumberStep ==
    (/\ pc = "tokenize"
     /\ tokens = <<>>
     /\ StartsLiteral(the_tokenizer.input)
     /\ Len(LiteralValue(the_tokenizer.input)) <= 16)
    => tokens' = <<Number(ValueOf(LiteralValue(the_tokenizer.input)))>>

\* C19: an in-range literal starting with 0x or 0b reaches the parser as a
\* Number token whose value is the integer of the longest run of digits of
\* that base, no digits meaning 0, and the first character that is no such
\* digit starts the next token: 0xfeedme is the Number 0xFEED then the Text me
C19_LiteralIsNumber ==
    /\ [][NumberStep]_vars
    /\ [](Tokenized(<<"0", "x", "f", "e", "e", "d", "m", "e">>)
             => tokens = <<Number(65261), Text("me")>>)
    /\ [](Tokenized(<<"0", "b", "1", "0", "2">>) => tokens = <<Number(2), Number(2)>>)

\* the string starts with a decimal literal
StartsDecimal(s) ==
    /\ s # <<>>
    /\ s[1] \in {"0", "1", "2", "3", "4", "5", "6", "7", "8", "9", "."}
    /\ ~StartsLiteral(s)

\* the slice a decimal literal consumes: the longest run of digits, `.`, `e`
\* and `e-` the string starts with
DecimalRun(s) ==
    LET accepted(i) ==
            \/ s[i] \in {"0", "1", "2", "3", "4", "5", "6", "7", "8", "9", ".", "e"}
            \/ s[i] = "-" /\ i > 1 /\ s[i - 1] = "e"
        n == CHOOSE k \in 1..Len(s) :
                 /\ \A i \in 1..k : accepted(i)
                 /\ (k < Len(s) => ~accepted(k + 1))
    IN  SubSeq(s, 1, n)

InvalidNumeric(slice, quote) == <<str("Invalid numeric constant '"), str(slice), str(quote)>>

\* when the decimal literal a string starts with is no floating value, the
\* token is the error of its slice, closed by `quote`
DecimalStep(quote) ==
    (/\ pc = "tokenize"
     /\ tokens = <<>>
     /\ StartsDecimal(the_tokenizer.input)
     /\ Len(tokens') = 1
     /\ tokens'[1].type # "Number")
    => tokens' = <<TokenErr(InvalidNumeric(Join(DecimalRun(the_tokenizer.input)), quote))>>

\* an error message of an invalid numeric constant ends with `quote`
ClosedBy(message, quote) ==
    Head(message) = str("Invalid numeric constant '") => Last(message) = str(quote)

\* parse and the main loop hand such an error on as it is
DecimalThroughParse(quote) ==
    /\ (pres.some /\ pres.value.kind = "Err")
           => ClosedBy(pres.value.error, quote)
    /\ \A i \in DOMAIN output :
           output[i].kind = "Err" => ClosedBy(output[i].error, quote)
    /\ Ran(<<Text("sin"), Op("("), TokenErr(InvalidNumeric("1ee2", "'")), Op(")")>>)
           => output = <<Err(InvalidNumeric("1ee2", quote))>>

\* C20: a decimal literal whose slice (the longest run of digits, `.`, `e` and
\* `e-`) is no floating value yields the error `Invalid numeric constant
\* '<slice>'.`, with the period, from the tokenizer and through parse: 1ee2,
\* sin(1ee2) and 3..14
C20_InvalidNumericConstant ==
    /\ [][DecimalStep("'.")]_vars
    /\ []DecimalThroughParse("'.")
    /\ [](Tokenized(<<"1", "e", "e", "2">>)
             => tokens = <<TokenErr(InvalidNumeric("1ee2", "'."))>>)
    /\ [](Tokenized(<<"3", ".", ".", "1", "4">>)
             => tokens = <<TokenErr(InvalidNumeric("3..14", "'."))>>)

\* the string starts with a bareword
StartsBareword(s) == s # <<>> /\ (is_alphabetic(s[1]) \/ s[1] = "_")

\* the longest run of characters of the class `accepted` the string starts with
RunOf(s, accepted(_)) ==
    SubSeq(s, 1, CHOOSE k \in 0..Len(s) :
                     /\ \A i \in 1..k : accepted(s[i])
                     /\ (k < Len(s) => ~accepted(s[k + 1])))

IsAlphanumeric(char) == is_alphabetic(char) \/ is_ascii_digit(char) \/ char = "_"
IsAlphabetic(char) == is_alphabetic(char) \/ char = "_"

\* the first token of a string that starts with a bareword is the Text of
\* its longest run of characters of the class
BarewordStep(accepted(_)) ==
    (pc = "tokenize" /\ tokens = <<>> /\ StartsBareword(the_tokenizer.input))
    => tokens' = <<Text(Join(RunOf(the_tokenizer.input, accepted)))>>

\* C21: a bareword token is the longest run of alphanumeric characters and _
\* that starts with an alphabetic character or _: log2 and i8 are each one
\* Text token, so that log2(4) and i8(128) are calls of those builtins
C21_BarewordAlphanumeric ==
    /\ [][BarewordStep(IsAlphanumeric)]_vars
    /\ [](Tokenized(<<"l", "o", "g", "2", "(", "4", ")">>)
             => tokens = <<Text("log2"), Op("("), Number(4), Op(")")>>)
    /\ [](Tokenized(<<"i", "8", "(", "1", "2", "8", ")">>)
             => tokens = <<Text("i8"), Op("("), Number(128), Op(")")>>)

\* the string starts with a quote
StartsQuoted(s) == s # <<>> /\ s[1] \in {"'", "\""}

\* the place of the closing quote of the string, or 0
Closing(s) ==
    IF \E i \in 2..Len(s) : s[i] = s[1]
    THEN CHOOSE i \in 2..Len(s) : s[i] = s[1] /\ \A j \in 2..(i - 1) : s[j] # s[1]
    ELSE 0

\* what stands between the quotes, or after the quote that is not closed
Quoted(s) == SubSeq(s, 2, IF Closing(s) = 0 THEN Len(s) ELSE Closing(s) - 1)

\* what stands after the closing quote
AfterQuoted(s) == SubSeq(s, Closing(s) + 1, Len(s))

QuotedStep ==
    LET s == the_tokenizer.input IN
    /\ (pc = "tokenize" /\ tokens = <<>> /\ StartsQuoted(s))
       => (tokens' = <<Text(Join(Quoted(s)))>> /\ pc' = "tokenize")
    /\ (pc = "tokenize" /\ Len(tokens) = 1 /\ StartsQuoted(s) /\ Closing(s) = 0)
       => (tokens' = tokens /\ pc' = "tokenized")

\* the closing quote is consumed: a bareword after it is the next token, and
\* nothing after it ends the input
QuotesConsumed ==
    LET s == the_tokenizer.input IN
    (pc = "tokenized" /\ StartsQuoted(s) /\ Closing(s) # 0) =>
        /\ AfterQuoted(s) = <<>> => tokens = <<Text(Join(Quoted(s)))>>
        /\ (AfterQuoted(s) # <<>> /\ RunOf(AfterQuoted(s), IsAlphabetic) = AfterQuoted(s))
           => tokens = <<Text(Join(Quoted(s))), Text(Join(AfterQuoted(s)))>>

\* C22: a quoted run yields a Text token holding exactly the characters
\* between the opening quote and the next occurrence of the same quote, the
\* other quote being ordinary text and both quotes being consumed; without a
\* closing quote the token holds all the remaining input, there is no error,
\* and the tokenizer then reports the end of the input
C22_QuotedText ==
    /\ [][QuotedStep]_vars
    /\ []QuotesConsumed
    /\ [](Tokenized(<<" ", " ", " ", "'", " ", "a", " ", "b", " ", "'", " ", " ", "\"", "w",
                      "h", "a", "t", "'", "s", " ", "u", "p", "\"", " ", " ", "'", "u", "n",
                      "c", "l", "o", "s", "e", "d", " ">>)
             => tokens = <<Text(" a b "), Text("what's up"), Text("unclosed ")>>)

\* the string of the test quoted_strings has been tokenized
C22_Witness ==
    /\ Tokenized(<<" ", " ", " ", "'", " ", "a", " ", "b", " ", "'", " ", " ", "\"", "w", "h",
                   "a", "t", "'", "s", " ", "u", "p", "\"", " ", " ", "'", "u", "n", "c", "l",
                   "o", "s", "e", "d", " ">>)
    /\ tokens = <<Text(" a b "), Text("what's up"), Text("unclosed ")>>

\* 'x e, not closed, has given one token
C22_WitnessUnclosed ==
    /\ Tokenized(<<"'", "x", " ", "e">>)
    /\ tokens = <<Text("x e")>>

\* 'x'e has given two tokens
C22_WitnessClosed ==
    /\ Tokenized(<<"'", "x", "'", "e">>)
    /\ tokens = <<Text("x"), Text("e")>>

\* the string starts with what is neither space, number, bareword nor quote
StartsOther(s) ==
    /\ s # <<>>
    /\ ~is_whitespace(s[1])
    /\ ~is_ascii_digit(s[1])
    /\ s[1] # "."
    /\ ~StartsBareword(s)
    /\ ~StartsQuoted(s)

\* the registered operator names the string starts with
NamesAt(s) ==
    {OPERATORS[i].name : i \in {j \in DOMAIN OPERATORS :
         /\ Len(chars[OPERATORS[j].name]) <= Len(s)
         /\ SubSeq(s, 1, Len(chars[OPERATORS[j].name])) = chars[OPERATORS[j].name]}}

Longest(names) ==
    CHOOSE name \in names : \A other \in names : Len(chars[other]) <= Len(chars[name])

\* the first token of such a string is the operator of the longest name it
\* starts with, or the Text of its first character
OperatorStep ==
    LET s == the_tokenizer.input IN
    (pc = "tokenize" /\ tokens = <<>> /\ StartsOther(s))
    => tokens' = <<IF NamesAt(s) # {} THEN Op(Longest(NamesAt(s))) ELSE Text(s[1])>>

C23_WitnessUnknown ==
    /\ Tokenized(<<"%", "@", "$">>)
    /\ tokens = <<Op("%"), Text("@"), Text("$")>>

----------------------------------------------------------------------------
(* ops.rs: the native functions on f64 values *)

\* a natural number is the sequence of its bits, the lowest first and the
\* last a 1; zero is the empty sequence
RECURSIVE Trim(_)
Trim(b) ==
    IF b = <<>> \/ b[Len(b)] = 1 THEN b ELSE Trim(SubSeq(b, 1, Len(b) - 1))

BitAt(b, i) == IF i \in DOMAIN b THEN b[i] ELSE 0

RECURSIVE FromNat(_)
FromNat(n) == IF n = 0 THEN <<>> ELSE <<n % 2>> \o FromNat(n \div 2)

RECURSIVE AddFrom(_, _, _, _)
AddFrom(a, b, i, carry) ==
    IF i > Len(a) /\ i > Len(b)
    THEN IF carry = 1 THEN <<1>> ELSE <<>>
    ELSE LET sum == BitAt(a, i) + BitAt(b, i) + carry IN
         <<sum % 2>> \o AddFrom(a, b, i + 1, sum \div 2)

AddBits(a, b) == Trim(AddFrom(a, b, 1, 0))

RECURSIVE SubFrom(_, _, _, _)
SubFrom(a, b, i, borrow) ==
    IF i > Len(a)
    THEN <<>>
    ELSE LET difference == BitAt(a, i) - BitAt(b, i) - borrow IN
         <<IF difference < 0 THEN difference + 2 ELSE difference>>
         \o SubFrom(a, b, i + 1, IF difference < 0 THEN 1 ELSE 0)

RECURSIVE LessFrom(_, _, _)
\* a < b, for a and b of the same length that are equal above the i-th bit
LessFrom(a, b, i) ==
    IF i = 0 THEN FALSE
    ELSE IF a[i] # b[i] THEN a[i] < b[i]
    ELSE LessFrom(a, b, i - 1)

LessBits(a, b) ==
    \/ Len(a) < Len(b)
    \/ Len(a) = Len(b) /\ LessFrom(a, b, Len(a))

\* a - b for a >= b
SubBits(a, b) == Trim(SubFrom(a, b, 1, 0))

ShiftLeft(a, k) == IF a = <<>> THEN <<>> ELSE [i \in 1..k |-> 0] \o a
ShiftRight(a, k) == Trim(SubSeq(a, k + 1, Len(a)))

RECURSIVE ModFrom(_, _, _, _)
\* long division: the remainder of the bits of a from the i-th up, by b
ModFrom(a, b, i, remainder) ==
    IF i = 0
    THEN remainder
    ELSE LET next_remainder == Trim(<<a[i]>> \o remainder) IN
         IF LessBits(next_remainder, b)
         THEN ModFrom(a, b, i - 1, next_remainder)
         ELSE ModFrom(a, b, i - 1, SubBits(next_remainder, b))

ModBits(a, b) == ModFrom(a, b, Len(a), <<>>)

\* a finite f64: (-1)^neg * mag * 2^exp with mag odd, or zero
F64(neg, mag, exp) ==
    IF Trim(mag) = <<>>
    THEN [neg |-> FALSE, mag |-> <<>>, exp |-> 0]
    ELSE LET zeros == (CHOOSE i \in DOMAIN mag : mag[i] = 1 /\ \A j \in 1..(i - 1) : mag[j] = 0) - 1
         IN  [neg |-> neg, mag |-> Trim(SubSeq(mag, zeros + 1, Len(mag))), exp |-> exp + zeros]

\* the magnitude of x in units of 2^exp, for exp <= x.exp
Aligned(x, exp) == ShiftLeft(x.mag, x.exp - exp)

MinExp(x, y) == IF x.exp < y.exp THEN x.exp ELSE y.exp

\* x + y without rounding
exact_add(x, y) ==
    LET exp == MinExp(x, y)
        a == Aligned(x, exp)
        b == Aligned(y, exp)
    IN  IF x.neg = y.neg
        THEN F64(x.neg, AddBits(a, b), exp)
        ELSE IF LessBits(a, b)
             THEN F64(y.neg, SubBits(b, a), exp)
             ELSE F64(x.neg, SubBits(a, b), exp)

\* rounding to the 53 bits of the significand of an f64, ties to even
round_f64(x) ==
    IF Len(x.mag) <= 53
    THEN x
    ELSE LET dropped == Len(x.mag) - 53
             kept == SubSeq(x.mag, dropped + 1, Len(x.mag))
             up == x.mag[dropped] = 1 /\ (dropped > 1 \/ kept[1] = 1)
         IN  F64(x.neg, IF up THEN AddBits(kept, <<1>>) ELSE kept, x.exp + dropped)

\* x + y of f64
add_f64(x, y) == round_f64(exact_add(x, y))

abs_f64(x) == [x EXCEPT !.neg = FALSE]

negative(x) == x.neg /\ x.mag # <<>>

\* x % y of f64: the remainder of the division truncated toward zero, which
\* is exact and has the sign of x
rem_f64(x, y) ==
    LET exp == MinExp(x, y) IN
    F64(x.neg, ModBits(Aligned(x, exp), Aligned(y, exp)), exp)

\* the remainder of the division truncated toward zero, left as it is
rem_truncated(x, y) == rem_f64(x, y)

\* the remainder with the sign of the divisor, as of a floored division
rem_floor(x, y) ==
    LET r == rem_f64(x, y) IN
    IF r.mag # <<>> /\ r.neg # y.neg THEN add_f64(r, y) ELSE r

\* f64::rem_euclid (ops.rs:152): r = x % y, and r + |y| when r < 0
rem_euclid(x, y) ==
    LET r == rem_f64(x, y) IN
    IF negative(r) THEN add_f64(r, abs_f64(y)) ELSE r

\* the bits of b from the lowest to the n-th
Wrap(b, n) == [i \in 1..n |-> BitAt(b, i)]

\* 2^n
PowerOfTwo(n) == [i \in 1..(n + 1) |-> IF i = n + 1 THEN 1 ELSE 0]

\* the whole part of the magnitude of x
whole_part(x) ==
    IF x.exp >= 0 THEN ShiftLeft(x.mag, x.exp) ELSE ShiftRight(x.mag, 0 - x.exp)

\* x rounded toward minus infinity, then taken as an i64
as_i64_floor(x) ==
    LET floor == IF x.neg /\ x.exp < 0
                 THEN AddBits(whole_part(x), <<1>>)
                 ELSE whole_part(x)
    IN  IF x.neg
        THEN Wrap(SubBits(PowerOfTwo(64), floor), 64)
        ELSE Wrap(floor, 64)

\* x as i64, as the 64 bits of its two's complement: x is truncated toward
\* zero, and is i64::MAX or i64::MIN when it is out of the range
as_i64(x) ==
    LET whole == whole_part(x) IN
    IF x.neg
    THEN IF Len(whole) >= 64
         THEN Wrap(PowerOfTwo(63), 64)
         ELSE Wrap(SubBits(PowerOfTwo(64), whole), 64)
    ELSE IF Len(whole) >= 64
         THEN Wrap(SubBits(PowerOfTwo(63), <<1>>), 64)
         ELSE Wrap(whole, 64)

\* an integer as an integer of n bits: its n lowest bits
truncate(bits, n) == SubSeq(bits, 1, n)

\* an unsigned integer as f64
unsigned_as_f64(bits) == F64(FALSE, bits, 0)

\* a signed integer, in two's complement, as f64
signed_as_f64(bits) ==
    IF bits[Len(bits)] = 1
    THEN F64(TRUE, SubBits(PowerOfTwo(Len(bits)), Trim(bits)), 0)
    ELSE F64(FALSE, bits, 0)

\* x as i64 as i32
to_int(x) == truncate(as_i64(x), 32)

\* x as i64 as u32
to_uint(x) == truncate(as_i64(x), 32)

RECURSIVE ToNat(_)
\* the number of at most 6 bits
ToNat(b) == IF b = <<>> THEN 0 ELSE Head(b) + 2 * ToNat(Tail(b))

\* the count of a shift taken from the 6 lowest bits of y
shift_count_wide(y) == ToNat(truncate(to_int(y), 6))

\* to_int(y) & 31
shift_count(y) == ToNat(truncate(to_int(y), 5))

\* bits << k of i32, for k < 32: the bits that leave the 32 are lost
shl(bits, k) == [i \in 1..32 |-> IF i > k THEN bits[i - k] ELSE 0]

\* bits >> k of u32: zeros come in
shr_u32(bits, k) == [i \in 1..32 |-> IF i + k <= 32 THEN bits[i + k] ELSE 0]

\* bits >> k of i32: copies of the sign bit come in
shr_i32(bits, k) == [i \in 1..32 |-> IF i + k <= 32 THEN bits[i + k] ELSE bits[32]]

\* OpFunction::Unary(function) and OpFunction::Binary(function) of the
\* operators whose values are no small integers
native(name, args) ==
    CASE name = "%" -> rem_euclid(args[1], args[2])
      [] name = "<<" -> signed_as_f64(shl(to_int(args[1]), shift_count(args[2])))
      [] name = ">>" -> unsigned_as_f64(shr_u32(to_uint(args[1]), shift_count(args[2])))
      [] name = ">>>" -> signed_as_f64(shr_i32(to_int(args[1]), shift_count(args[2])))
      [] name = "i8" -> signed_as_f64(truncate(as_i64(args[1]), 8))
      [] name = "u8" -> unsigned_as_f64(truncate(as_i64(args[1]), 8))
      [] name = "i16" -> signed_as_f64(truncate(as_i64(args[1]), 16))
      [] name = "u16" -> unsigned_as_f64(truncate(as_i64(args[1]), 16))
      [] name = "i32" -> signed_as_f64(to_int(args[1]))
      [] name = "u32" -> unsigned_as_f64(to_uint(args[1]))

----------------------------------------------------------------------------
(* one call of a native function *)

\* n * 2^exp
Dyadic(n, exp) == F64(n < 0, FromNat(IF n < 0 THEN 0 - n ELSE n), exp)

\* largest operand, in quarters, of the exhaustive family of remainders
MaxQuarters == 12

\* the operands of tests::eval_arithmetic, and operands far apart
RemainderPairs ==
    { <<Dyadic(3, 0), Dyadic(2, 0)>>, <<Dyadic(4, 0), Dyadic(2, 0)>>,
      <<Dyadic(10, 0), Dyadic(3, 0)>>, <<Dyadic(11, 0), Dyadic(3, 0)>>,
      <<Dyadic(27, 0), Dyadic(4, 0)>>, <<Dyadic(28, 0), Dyadic(5, 0)>>,
      <<Dyadic(70, -2), Dyadic(17, -2)>>,
      <<Dyadic(-66, -2), Dyadic(21, -2)>>, <<Dyadic(-66, -2), Dyadic(-21, -2)>>,
      <<Dyadic(66, -2), Dyadic(21, -2)>>, <<Dyadic(66, -2), Dyadic(-21, -2)>>,
      <<Dyadic(-1, 0), Dyadic(1, 52)>>, <<Dyadic(-1, 0), Dyadic(1, 53)>>,
      <<Dyadic(-1, 0), Dyadic(1, 54)>>, <<Dyadic(-1, 0), Dyadic(-1, 54)>>,
      <<Dyadic(1, 0), Dyadic(1, 54)>>, <<Dyadic(-3, -2), Dyadic(1, 53)>>,
      <<Dyadic(-1, -60), Dyadic(1, 0)>>, <<Dyadic(-3, -55), Dyadic(-1, 0)>> }

\* the calls of %: every pair of operands of at most MaxQuarters quarters,
\* the divisor not zero, and the pairs above
RemainderCalls ==
    { [name |-> "%", args |-> <<Dyadic(n, -2), Dyadic(m, -2)>>] :
          n \in (0 - MaxQuarters)..MaxQuarters,
          m \in ((0 - MaxQuarters)..MaxQuarters) \ {0} }
    \cup { [name |-> "%", args |-> pair] : pair \in RemainderPairs }

\* 2^k + d
Near(k, d) == exact_add(Dyadic(1, k), Dyadic(d, 0))

\* the powers of two of tests::eval_casts, and of the ends of the ranges of
\* f64 and of i64
CastExponents == {7, 8, 15, 16, 31, 32, 52}

\* largest small operand of a cast
MaxCast == 3

\* largest operand of a cast, in halves, of the exhaustive family
MaxHalves == 7

\* the operands of tests::eval_casts and their opposites, operands with a
\* fractional part, and operands at the ends of the range of i64 and out of it
CastOperands ==
    {Dyadic(n, 0) : n \in (0 - MaxCast)..MaxCast}
    \cup {Near(k, d) : k \in CastExponents, d \in -1..1}
    \cup {Dyadic(0 - 1, 0)} \cup {F64(TRUE, Near(k, d).mag, Near(k, d).exp) : k \in CastExponents, d \in -1..1}
    \cup {Dyadic(n, -1) : n \in (0 - MaxHalves)..MaxHalves}
    \cup {Dyadic(n, -1) : n \in {-513, -511, -257, -255, 255, 257, 511, 513}}
    \cup {Dyadic(1, 62), Dyadic(-1, 62), Dyadic(-1, 63), Dyadic(1, 63), Dyadic(-1, 64),
          Dyadic(3, 63), Dyadic(-3, 63)}

Casts == {"i8", "u8", "i16", "u16", "i32", "u32"}

CastCalls == {[name |-> name, args |-> <<x>>] : name \in Casts, x \in CastOperands}

\* x with the opposite sign
Opposite(x) == F64(~x.neg, x.mag, x.exp)

\* largest count of a shift, of either sign
MaxShift == 33

\* the shifted operands of tests::eval_bitwise and their opposites, operands
\* next to 2^31 and 2^32, and operands with a fractional part
ShiftOperands ==
    LET positive == {Dyadic(n, 0) : n \in {0, 1, 123, 1234}}
                    \cup {Near(k, d) : k \in {31, 32}, d \in -1..1}
                    \cup {Dyadic(5, -1), Dyadic(3, 31), Dyadic(5, 30)}
    IN  positive \cup {Opposite(x) : x \in positive}

\* the counts of tests::eval_bitwise, every count up to MaxShift of either
\* sign, and counts with a fractional part
ShiftCounts ==
    {Dyadic(n, 0) : n \in (0 - MaxShift)..MaxShift}
    \cup {Dyadic(3, -1), Dyadic(-3, -1), Dyadic(63, -1), Dyadic(1, 32), Near(32, 1)}

Shifts == {"<<", ">>", ">>>"}

ShiftCalls ==
    {[name |-> name, args |-> <<x, y>>] : name \in Shifts, x \in ShiftOperands, y \in ShiftCounts}

NativeCalls == RemainderCalls \cup CastCalls \cup ShiftCalls

\* a native function is about to be called
InitOps ==
    /\ estack \in {<<call>> : call \in NativeCalls}
    /\ pc = "native"
    /\ eres = None
    /\ program = <<>>
    /\ input = <<>>
    /\ the_tokenizer = new(<<>>)
    /\ line = <<>>
    /\ tokens = <<>>
    /\ pstack = <<>>
    /\ pres = None
    /\ context = [n \in {} |-> None]
    /\ defined = <<>>
    /\ output = <<>>

\* the call returns
ApplyNative ==
    /\ pc = "native"
    /\ eres' = Some(Ok(native(Head(estack).name, Head(estack).args)))
    /\ pc' = "applied"
    /\ UNCHANGED <<the_tokenizer, program, input, line, tokens, pstack, pres, estack, context,
                   defined, output>>

NextOps == ApplyNative

SpecOps == InitOps /\ [][NextOps]_vars

----------------------------------------------------------------------------
(* properties of the native functions, under SpecOps *)

\* the call of name has returned
Applied(name) == pc = "applied" /\ Head(estack).name = name

\* name applied to x and y has returned r
Gives(name, x, y, r) ==
    (Applied(name) /\ Head(estack).args = <<x, y>>) => eres = Some(Ok(r))

IsZero(x) == x.mag = <<>>

\* r is zero or has the sign of y
SignOf(r, y) == IsZero(r) \/ r.neg = y.neg

\* C24 as stated: for every x and every divisor y that is not zero, x % y is
\* zero or has the sign of the divisor y
C24_SignOfDivisor ==
    Applied("%") => SignOf(eres.value.value, Head(estack).args[2])

\* C24: for every x and every divisor y that is not zero, x % y is zero or
\* positive, whatever the sign of y: it has the sign of the divisor when y is
\* positive, and the opposite sign, unless it is zero, when y is negative
C24_NeverNegative ==
    Applied("%") =>
        LET r == eres.value.value
            y == Head(estack).args[2]
        IN  /\ ~negative(r)
            /\ ~negative(y) => SignOf(r, y)
            /\ (negative(y) /\ ~IsZero(r)) => ~SignOf(r, y)

\* -16.5 % -5.25 has given 4.5
C24_Witness ==
    /\ Applied("%")
    /\ Head(estack).args = <<Dyadic(-66, -2), Dyadic(-21, -2)>>
    /\ eres = Some(Ok(Dyadic(18, -2)))

RECURSIVE MulFrom(_, _, _)
MulFrom(a, b, i) ==
    IF i > Len(b)
    THEN <<>>
    ELSE AddBits(IF b[i] = 1 THEN ShiftLeft(a, i - 1) ELSE <<>>, MulFrom(a, b, i + 1))

\* k * y, exactly, for an integer k
Multiple(k, y) ==
    F64((k < 0) # y.neg, MulFrom(y.mag, FromNat(IF k < 0 THEN 0 - k ELSE k), 1), y.exp)

Negated(x) == F64(~x.neg, x.mag, x.exp)

\* x - y, exactly
Minus(x, y) == exact_add(x, Negated(y))

\* x < y
Below(x, y) == negative(Minus(x, y))

\* the quotients of the operands of the calls of %
Quotients == (0 - MaxQuarters - 1)..(MaxQuarters + 1)

\* e is the value with 0 <= e < |y| such that x - e is a whole multiple of y
Euclidean(x, y, e) ==
    /\ ~negative(e)
    /\ Below(e, abs_f64(y))
    /\ \E k \in Quotients : Minus(x, e) = Multiple(k, y)

\* x - k * y for the k that puts it in 0 <= . < |y|
Remainders(x, y) ==
    {e \in {Minus(x, Multiple(k, y)) : k \in Quotients} : ~negative(e) /\ Below(e, abs_f64(y))}

\* x is an f64: its significand has at most 53 bits
Representable(x) == Len(x.mag) <= 53

\* half of the unit in the last place of an f64 of the magnitude of x
HalfUlp(x) == F64(FALSE, <<1>>, x.exp + Len(x.mag) - 1 - 53)

\* r is an f64 nearest to e
Nearest(r, e) ==
    /\ Representable(r)
    /\ ~Below(HalfUlp(e), abs_f64(Minus(r, e)))

\* C25 as stated: for every x and every divisor y of either sign that is not
\* zero, x % y is the value r with 0 <= r < |y| such that x - r is a whole
\* multiple of y
C25_EuclideanRemainder ==
    Applied("%") =>
        Euclidean(Head(estack).args[1], Head(estack).args[2], eres.value.value)

\* C25: for every x and every divisor y of either sign that is not zero, the
\* value e with 0 <= e < |y| such that x - e is a whole multiple of y exists
\* and is unique, and x % y is e whenever e is an f64, as it is for
\* -16.5 % 5.25 and -16.5 % -5.25, both 4.5, and for 16.5 % 5.25 and
\* 16.5 % -5.25, both 0.75; when e is no f64, x % y is an f64 nearest to e,
\* at least 0 and at most |y|
C25_EuclideanRounded ==
    /\ Applied("%") =>
           LET x == Head(estack).args[1]
               y == Head(estack).args[2]
               r == eres.value.value
           IN  /\ Cardinality(Remainders(x, y)) = 1
               /\ \A e \in Remainders(x, y) :
                      /\ Euclidean(x, y, e)
                      /\ Representable(e) => r = e
                      /\ Nearest(r, e)
                      /\ ~negative(r)
                      /\ ~Below(abs_f64(y), r)
    /\ Gives("%", Dyadic(-66, -2), Dyadic(21, -2), Dyadic(18, -2))
    /\ Gives("%", Dyadic(-66, -2), Dyadic(-21, -2), Dyadic(18, -2))
    /\ Gives("%", Dyadic(66, -2), Dyadic(21, -2), Dyadic(3, -2))
    /\ Gives("%", Dyadic(66, -2), Dyadic(-21, -2), Dyadic(3, -2))

\* 16.5 % -5.25 has given 0.75
C25_Witness ==
    /\ Applied("%")
    /\ Head(estack).args = <<Dyadic(66, -2), Dyadic(-21, -2)>>
    /\ eres = Some(Ok(Dyadic(3, -2)))

\* -1 % 2^54 has given 2^54, the divisor itself: 2^54 - 1 is no f64
C25_WitnessRounded ==
    /\ Applied("%")
    /\ Head(estack).args = <<Dyadic(-1, 0), Dyadic(1, 54)>>
    /\ eres = Some(Ok(Dyadic(1, 54)))

\* name applied to x has returned r
Returns(name, x, r) ==
    (Applied(name) /\ Head(estack).args = <<x>>) => eres = Some(Ok(r))

\* x has no fractional part
IsWhole(x) == IsZero(x) \/ x.exp >= 0

\* -2^63 <= x < 2^63
InRange64(x) == ~Below(x, Dyadic(-1, 63)) /\ Below(x, Dyadic(1, 63))

\* largest magnitude of the whole part of an operand with a fractional part
MaxWhole == 257

\* x truncated toward zero: the whole numbers t of the sign of x with
\* |t| <= |x| < |t| + 1
Truncations(x) ==
    IF IsWhole(x)
    THEN {x}
    ELSE {t \in {Dyadic(n, 0) : n \in (0 - MaxWhole)..MaxWhole} :
              /\ IsZero(t) \/ t.neg = x.neg
              /\ ~Below(abs_f64(x), abs_f64(t))
              /\ Below(abs_f64(x), exact_add(abs_f64(t), Dyadic(1, 0)))}

\* e = a mod 2^n: 0 <= e < 2^n and a - e is a multiple of 2^n
IsModulo(a, n, e) ==
    /\ ~negative(e)
    /\ Below(e, Dyadic(1, n))
    /\ LET difference == Minus(a, e) IN IsZero(difference) \/ difference.exp >= n

WidthOf(name) ==
    CASE name \in {"i8", "u8"} -> 8
      [] name \in {"i16", "u16"} -> 16
      [] name \in {"i32", "u32"} -> 32

\* r is t mod 2^N for uN, and ((t + 2^(N-1)) mod 2^N) - 2^(N-1) for iN
IsCast(name, t, r) ==
    LET half == Dyadic(1, WidthOf(name) - 1) IN
    IF name \in {"u8", "u16", "u32"}
    THEN IsModulo(t, WidthOf(name), r)
    ELSE IsModulo(exact_add(t, half), WidthOf(name), exact_add(r, half))

\* C26: for every whole x of the range of i64 and N in {8, 16, 32}, uN(x) is
\* x mod 2^N and iN(x) is ((x + 2^(N-1)) mod 2^N) - 2^(N-1), and an x with a
\* fractional part is first truncated toward zero: i8(128) = -128,
\* u8(-1) = 255, i32(4294967295) = -1, u32(4294967296) = 0
C26_Casts ==
    /\ \A name \in Casts :
           (Applied(name) /\ InRange64(Head(estack).args[1])) =>
               /\ Truncations(Head(estack).args[1]) # {}
               /\ \A t \in Truncations(Head(estack).args[1]) :
                      IsCast(name, t, eres.value.value)
    /\ Returns("i8", Dyadic(128, 0), Dyadic(-128, 0))
    /\ Returns("u8", Dyadic(-1, 0), Dyadic(255, 0))
    /\ Returns("i32", Near(32, -1), Dyadic(-1, 0))
    /\ Returns("u32", Near(32, 0), Dyadic(0, 0))

\* i32(4294967295) has given -1
C26_Witness ==
    /\ Applied("i32")
    /\ Head(estack).args = <<Near(32, -1)>>
    /\ eres = Some(Ok(Dyadic(-1, 0)))

\* u8(-1.5) has given 255: -1.5 is truncated to -1
C26_WitnessFraction ==
    /\ Applied("u8")
    /\ Head(estack).args = <<Dyadic(-3, -1)>>
    /\ eres = Some(Ok(Dyadic(255, 0)))

\* i16(-32769) has given 32767
C26_WitnessNegative ==
    /\ Applied("i16")
    /\ Head(estack).args = <<F64(TRUE, Near(15, 1).mag, 0)>>
    /\ eres = Some(Ok(Dyadic(32767, 0)))

\* a mod 2^n of a whole a, by division
Modulo(a, n) ==
    LET remainder == F64(FALSE, ModBits(Aligned(a, 0), PowerOfTwo(n)), 0) IN
    IF negative(a) /\ ~IsZero(remainder)
    THEN Minus(Dyadic(1, n), remainder)
    ELSE remainder

\* a as an unsigned and as a signed number of 32 bits
Unsigned32(a) == Modulo(a, 32)
Signed32(a) == Minus(Modulo(exact_add(a, Dyadic(1, 31)), 32), Dyadic(1, 31))

\* a * 2^k
Scaled(a, k) == F64(a.neg, a.mag, a.exp + k)

\* r is a as a signed number of 32 bits: -2^31 <= r < 2^31 and a - r is a
\* multiple of 2^32
IsSigned32(a, r) == IsModulo(exact_add(a, Dyadic(1, 31)), 32, exact_add(r, Dyadic(1, 31)))

\* r is a / 2^k rounded toward minus infinity
IsQuotient(a, k, r) ==
    /\ IsWhole(r)
    /\ ~negative(Minus(a, Scaled(r, k)))
    /\ Below(Minus(a, Scaled(r, k)), Dyadic(1, k))

\* the count of the shift by y: y, truncated toward zero, modulo 32
CountOf(y) == {ToNat(Aligned(Modulo(t, 5), 0)) : t \in Truncations(y)}

\* the operands of a shift are in the range of i64 and their truncations
\* toward zero are known
Shiftable(x, y) ==
    /\ InRange64(x) /\ InRange64(y)
    /\ Truncations(x) # {} /\ Truncations(y) # {}

\* C27: the shifts reduce both operands to 32 bits and use the count modulo
\* 32: << gives the signed 32-bit wrap of x * 2^count, >> the unsigned 32-bit
\* value of x divided by 2^count (zeros come in) and >>> the signed 32-bit
\* value of x divided by 2^count and rounded down (the sign is propagated):
\* 1 << 32 = 1, 1 << -1 = 1 << 31 = -2147483648, 0x80000000 >> 1 = 1073741824,
\* 0x80000000 >>> 1 = -1073741824
C27_Shifts ==
    /\ \A name \in Shifts :
           (Applied(name) /\ Shiftable(Head(estack).args[1], Head(estack).args[2])) =>
               LET r == eres.value.value IN
               /\ Cardinality(CountOf(Head(estack).args[2])) = 1
               /\ \A k \in CountOf(Head(estack).args[2]), t \in Truncations(Head(estack).args[1]) :
                      CASE name = "<<" -> IsSigned32(Scaled(t, k), r)
                        [] name = ">>" -> IsQuotient(Unsigned32(t), k, r)
                        [] name = ">>>" -> IsQuotient(Signed32(t), k, r)
    /\ Gives("<<", Dyadic(1, 0), Dyadic(32, 0), Dyadic(1, 0))
    /\ Gives("<<", Dyadic(1, 0), Dyadic(-1, 0), Dyadic(-1, 31))
    /\ Gives("<<", Dyadic(1, 0), Dyadic(31, 0), Dyadic(-1, 31))
    /\ Gives(">>", Dyadic(1, 31), Dyadic(1, 0), Dyadic(1, 30))
    /\ Gives(">>>", Dyadic(1, 31), Dyadic(1, 0), Dyadic(-1, 30))

\* 1 << -1 has given -2147483648
C27_Witness ==
    /\ Applied("<<")
    /\ Head(estack).args = <<Dyadic(1, 0), Dyadic(-1, 0)>>
    /\ eres = Some(Ok(Dyadic(-1, 31)))

\* 0x80000000 >> 1 has given 1073741824
C27_WitnessZeroFill ==
    /\ Applied(">>")
    /\ Head(estack).args = <<Dyadic(1, 31), Dyadic(1, 0)>>
    /\ eres = Some(Ok(Dyadic(1, 30)))

\* 0x80000000 >>> 1 has given -1073741824
C27_WitnessSign ==
    /\ Applied(">>>")
    /\ Head(estack).args = <<Dyadic(1, 31), Dyadic(1, 0)>>
    /\ eres = Some(Ok(Dyadic(-1, 30)))

\* the innermost activation, of a lazy operator, returns
LazyReturns ==
    /\ InEval
    /\ etop.expression.kind = "Operator"
    /\ etop.expression.op.name \in {"||", "&&", "?:"}
    /\ Len(estack') < Len(estack)

\* the value of child index (from 0) of activation a, which evaluated it
ChildValue(a, index) ==
    {a.values[i] : i \in {j \in 1..Len(a.values) : a.started[j] = index}}

\* the operand whose value a lazy operator is to return, given its first value
Chosen(name, first) ==
    CASE name = "||" -> IF first # 0 THEN 0 ELSE 1
      [] name = "&&" -> IF first # 0 THEN 1 ELSE 0
      [] name = "?:" -> IF first # 0 THEN 1 ELSE 2

\* value v goes to the caller of the innermost activation, or is the result
PassedOn(v) ==
    IF Len(estack) = 1
    THEN estack' = <<>> /\ eres' = Some(Ok(v))
    ELSE /\ Len(estack') = Len(estack) - 1
         /\ Last(estack')["values"] = Append(estack[Len(estack) - 1].values, v)

\* C28: a lazy operator returns the value of an operand as it is, not 0 or 1:
\* a || b is the value of a when it is not zero and the value of b otherwise,
\* a && b is the value of b when a is not zero and the value of a, zero,
\* otherwise, c ? a : b is the value of a when c is not zero and the value of
\* b otherwise: 23 || 42 = 23, 0 || 42 = 42, 23 && 42 = 42, 0 && 42 = 0
C28_LazyValues ==
    [][ /\ LazyReturns =>
            LET a == etop
                chosen == ChildValue(a, Chosen(a.expression.op.name, a.values[1]))
            IN  /\ Cardinality(chosen) = 1
                /\ \A v \in chosen : PassedOn(v)
        /\ (Ran(LazyValues))' =>
               output' = <<Ok(23), Ok(42), Ok(42), Ok(0), Ok(7), Ok(9), Ok(5)>> ]_vars

\* 23 || 42, 0 || 42, 23 && 42 and 0 && 42 have given 23, 42, 42 and 0
C28_Witness ==
    /\ Ran(LazyValues)
    /\ output = <<Ok(23), Ok(42), Ok(42), Ok(0), Ok(7), Ok(9), Ok(5)>>

\* 2 + 3 has returned 5 to ||, which is about to return it
C28_WitnessComputed ==
    /\ InEval
    /\ Len(estack) = 1
    /\ etop.expression.kind = "Operator"
    /\ etop.expression.op.name = "||"
    /\ etop.values = <<5>>

----------------------------------------------------------------------------
(* termination *)

\* the process starts on a program; of the programs that recurse deeply, on
\* those that recurse without condition
InitFair ==
    /\ InitMain
    /\ program \in DeepPrograms => program \in RecursivePrograms

\* the steps of the process
NextMain == NextParse \/ NextEval \/ NextLine

\* the process is sequential: whenever a step is possible, it takes one
SpecFair == InitFair /\ [][NextMain]_vars /\ WF_vars(NextMain)

\* parse runs, and has returned Ok or Err
ParseRuns == pc = "parse"
ParseReturned == pc = "parsed" /\ pres.some /\ pres.value.kind \in {"Ok", "Err"}

\* evaluate runs, and has returned Ok or Err
EvaluateRuns == pc = "eval" /\ estack # <<>>
EvaluateReturned ==
    pc = "eval" /\ estack = <<>> /\ eres.some /\ eres.value.kind \in {"Ok", "Err"}

\* C29: parse returns Ok or Err from every sequence of tokens, and evaluate
\* returns Ok or Err from every tree in every Context, those whose functions
\* call themselves or each other without condition included (f = f; f = g,
\* g = f): every run reaches a result
C29_Terminates ==
    /\ ParseRuns ~> ParseReturned
    /\ EvaluateRuns ~> EvaluateReturned

\* f = g, g = f, f has ended with Excessive recursion.
C29_Witness ==
    /\ Final(<< <<Text("f"), Op("="), Text("g")>>, <<Text("g"), Op("="), Text("f")>>,
                <<Text("f")>> >>)
    /\ output = <<Excessive>>
    /\ estack = <<>>

\* loop = loop, loop has ended with Excessive recursion.
C29_WitnessLoop ==
    /\ Final(<< <<Text("loop"), Op("="), Text("loop")>>, <<Text("loop")>> >>)
    /\ output = <<Excessive>>

----------------------------------------------------------------------------
(* the order of evaluation, under Spec *)

\* the activation evaluates each of its children: a Unary or Binary operator,
\* or the call of a user defined function
EvaluatesAll(a) ==
    \/ /\ a.expression.kind = "Operator"
       /\ a.expression.op.function \in {"Unary", "Binary"}
    \/ /\ a.expression.kind = "Function"
       /\ which_local(a.frame, a.expression.name) = 0

\* the children the activation started are the first of its children, in
\* their order, each once
InOrder(a) ==
    /\ Len(a.started) <= Len(a.expression.args)
    /\ a.started = [i \in 1..Len(a.started) |-> i - 1]

\* evaluation fails
Fails == estack # <<>> /\ eres' # eres /\ eres'.some /\ eres'.value.kind = "Err"

\* the child of activation i that runs is the last it started, and every
\* child before it has returned a value; or it is the body of the function
\* called, and every argument has returned a value
FirstFailure(i) ==
    IF estack[i].tail /\ estack[i].expression.kind = "Function"
    THEN /\ Len(estack[i].started) = Len(estack[i].expression.args)
         /\ Len(estack[i].values) = Len(estack[i].expression.args)
    ELSE /\ estack[i].started # <<>>
         /\ Len(estack[i].values) = Len(estack[i].started) - 1

\* C30: a Unary or Binary operator and the call of a user function evaluate
\* their children in the order of their indices, each at most once; when a
\* child fails, its error is the result and no later child is evaluated: with
\* a and b undefined, a + b fails with Unknown value a.
C30_EvaluationOrder ==
    [][ /\ \A i \in 1..Len(estack) : EvaluatesAll(estack[i]) => InOrder(estack[i])
        /\ Fails =>
               /\ estack' = <<>>
               /\ \A i \in 1..(Len(estack) - 1) :
                      EvaluatesAll(estack[i]) => FirstFailure(i)
        /\ (pc = "eval" /\ estack = <<>> /\ eres.some /\ eres.value.kind = "Err") =>
               estack' = <<>> /\ eres' = eres
        /\ (Ran(<<Text("a"), Op("+"), Text("b")>>))' => output' = <<Unknown("a")>>
        /\ (Ran(<<Op("-"), Text("a")>>))' => output' = <<Unknown("a")>>
        /\ (Ran(<<Text("max"), Op("("), Text("a"), Text(","), Text("b"), Op(")")>>))' =>
               output' = <<Unknown("a")>>
        /\ (Ran(<<Number(1), Op("+"), Text("b"), Op("+"), Text("a")>>))' =>
               output' = <<Unknown("b")>>
        /\ (Final(<<Call("f", <<Text("x"), Text("y")>>) \o <<Op("="), Text("y")>>,
                    Call("f", <<Text("a"), Text("b")>>)>>))' =>
               output' = <<Unknown("a")>>
        /\ (Final(<<Call("f", <<Text("x"), Text("y")>>) \o <<Op("="), Text("y")>>,
                    Call("f", <<Number(1), Text("b")>>)>>))' =>
               output' = <<Unknown("b")>> ]_vars

\* a + b has failed with Unknown value a.
C30_Witness ==
    /\ Ran(<<Text("a"), Op("+"), Text("b")>>)
    /\ output = <<Unknown("a")>>

\* f(1, b) has evaluated 1, and evaluates b
C30_WitnessArguments ==
    /\ Len(estack) = 2
    /\ estack[1].expression.kind = "Function"
    /\ estack[1].expression.name = "f"
    /\ estack[1].started = <<0, 1>>
    /\ estack[1].values = <<1>>
    /\ estack[2].expression.name = "b"

\* 1 + b + a: the first operand has returned 1 + b failing, a was never started
C30_WitnessSecond ==
    /\ Ran(<<Number(1), Op("+"), Text("b"), Op("+"), Text("a")>>)
    /\ output = <<Unknown("b")>>

----------------------------------------------------------------------------
(* deconstruct_function_definition, under Spec *)

\* the statement parsed is no definition: evaluate_line evaluates its tree
Rejected == pc = "parsed" /\ pc' = "eval"

\* the tree of f(x,1)=2 as parse returns it
RejectedTree ==
    Operator(Entry("="), <<Function("f", <<Function("x", <<>>), Constant(1)>>), Constant(2)>>)

\* C31: when deconstruct_function_definition returns None, whatever the reason,
\* the tree is as parse returned it, in every name, child and order, a
\* left-hand call whose first arguments are bare names included, and it is
\* evaluated as if the call had not happened: f(x,1)=2 fails with Invalid use
\* of = operator.
C31_RejectionKeepsTree ==
    [][ /\ Rejected =>
            /\ deconstruct_function_definition(pres.value.value).result = Ok(None)
            /\ estack' = <<RootActivation(pres.value.value)>>
        /\ (Final(<<Call("f", <<Text("x"), Number(1)>>) \o <<Op("="), Number(2)>>>>))' =>
               output' = <<InvalidUse("=")>> ]_vars

\* f(x,1)=2 was rejected, and its tree is evaluated with the name x in it
C31_Witness ==
    /\ program = <<Call("f", <<Text("x"), Number(1)>>) \o <<Op("="), Number(2)>>>>
    /\ pc = "eval"
    /\ estack = <<RootActivation(RejectedTree)>>

\* f(x,y(z))=1 was rejected and has failed with Invalid use of = operator.
C31_WitnessNested ==
    /\ Final(<<<<Text("f"), Op("("), Text("x"), Text(","), Text("y"), Op("("), Text("z"),
                 Op(")"), Op(")"), Op("="), Number(1)>>>>)
    /\ output = <<InvalidUse("=")>>

----------------------------------------------------------------------------
(* the end of an argument, under SpecParse *)

\* the parser of an argument is about to read a )
ArgumentMeetsClose == InParseLoop /\ top.is_nested /\ peek_operator(tokens, ")")

\* the number of ( on the stack of a parser
Opens(parser) == Cardinality({i \in DOMAIN parser.stack : parser.stack[i].op.name = "("})

\* the argument is over: its parse call has returned, leaving the ) in the input
ArgumentEnds ==
    /\ tokens' = tokens
    /\ Len(pstack') < Len(pstack)
    /\ pc' = "parse" =>
           /\ Front(pstack') = SubSeq(pstack, 1, Len(pstack) - 2)
           /\ Len(Last(pstack').args) = Len(pstack[Len(pstack) - 1].args) + 1

\* the argument itself takes the ), which closes its innermost group
ArgumentConsumes ==
    /\ tokens' = Tail(tokens)
    /\ pc' = "parse" =>
           /\ Len(pstack') = Len(pstack)
           /\ Front(pstack') = Front(pstack)
           /\ Opens(Last(pstack').parser) = Opens(top.parser) - 1

\* C32: while one argument of a call is parsed, a ) ends the argument exactly
\* when the stack of the argument's own parser holds no (, and a ) that closes a
\* group opened inside the argument is consumed by the argument itself; so
\* f((1+2)*3) has the single argument *(+(1,2),3) and
\* foo(1,bar(x,y+foo(bar()))) gives foo(1,bar(x(),+(y(),foo(bar()))))
C32_ArgumentEnd ==
    [][ /\ ArgumentMeetsClose =>
            IF HasOpen(top.parser) THEN ArgumentConsumes ELSE ArgumentEnds
        /\ (Parsed(<<Text("f"), Op("("), Op("("), Number(1), Op("+"), Number(2), Op(")"),
                     Op("*"), Number(3), Op(")")>>))' =>
               pres' = Some(Ok(Function("f",
                           <<Binary(Entry("*"),
                                    Binary(Entry("+"), Constant(1), Constant(2)),
                                    Constant(3))>>)))
        /\ (Parsed(<<Text("foo"), Op("("), Number(1), Text(","), Text("bar"), Op("("),
                     Text("x"), Text(","), Text("y"), Op("+"), Text("foo"), Op("("),
                     Text("bar"), Op("("), Op(")"), Op(")"), Op(")"), Op(")")>>))' =>
               pres' = Some(Ok(Function("foo",
                           <<Constant(1),
                             Function("bar",
                                 <<Function("x", <<>>),
                                   Binary(Entry("+"), Function("y", <<>>),
                                          Function("foo", <<Function("bar", <<>>)>>))>>)>>)))
      ]_vars

\* f((1+2)*3) is parsed to a call of one argument
C32_Witness ==
    /\ Parsed(<<Text("f"), Op("("), Op("("), Number(1), Op("+"), Number(2), Op(")"), Op("*"),
                Number(3), Op(")")>>)
    /\ pres.value.kind = "Ok"
    /\ Len(pres.value.value.args) = 1

\* the argument of f((1+2)*3) meets the ) of its group
C32_WitnessGroup ==
    /\ line = <<Text("f"), Op("("), Op("("), Number(1), Op("+"), Number(2), Op(")"), Op("*"),
                Number(3), Op(")")>>
    /\ ArgumentMeetsClose
    /\ HasOpen(top.parser)

\* the argument of f((1+2)*3) meets the ) of the call
C32_WitnessCall ==
    /\ line = <<Text("f"), Op("("), Op("("), Number(1), Op("+"), Number(2), Op(")"), Op("*"),
                Number(3), Op(")")>>
    /\ ArgumentMeetsClose
    /\ ~HasOpen(top.parser)

----------------------------------------------------------------------------
(* the frames of the evaluator, under Spec *)

\* estack[i] evaluates the body of the function that estack[i - 1] calls
IsBody(i) == i > 1 /\ estack[i - 1].expression.kind = "Function" /\ estack[i - 1].tail

\* the frame of a body holds the parameters of its function, bound to the values
\* of the arguments, and nothing else; every other child has the frame of its
\* parent, the arguments of a call among them
FramesScoped ==
    \A i \in 1..Len(estack) :
        IF i = 1
        THEN estack[i].frame.local_names = <<>> /\ estack[i].frame.local_values = <<>>
        ELSE IF IsBody(i)
             THEN /\ estack[i].frame.local_names = context[estack[i - 1].expression.name].args
                  /\ estack[i].frame.local_values = estack[i - 1].values
                  /\ estack[i].expression = context[estack[i - 1].expression.name].expression
             ELSE /\ estack[i].frame.local_names = estack[i - 1].frame.local_names
                  /\ estack[i].frame.local_values = estack[i - 1].frame.local_values

\* the first program of ScopePrograms
CallerScope ==
    << <<Text("g"), Op("="), Text("x")>>,
       Call("f", <<Text("x")>>) \o <<Op("="), Text("g")>>,
       Call("f", <<Number(5)>>) >>

\* the last program of ScopePrograms
TestFunctions ==
    << Call("f", <<Text("x")>>) \o <<Op("="), Text("x"), Op("*"), Number(2)>>,
       Call("g", <<Text("x"), Text("y")>>) \o <<Op("="), Text("x"), Op("*"), Text("y")>>,
       Call("h", <<Text("x")>>) \o <<Op("=")>> \o Call("f", <<Text("x")>>) \o <<Op("+")>>
           \o Call("g", <<Text("x"), Number(3)>>),
       Call("f", <<Number(10)>>),
       <<Text("f"), Op("("), Text("f"), Op("("), Number(1), Op(")"), Op(")")>>,
       Call("g", <<Number(2), Number(3)>>),
       Call("h", <<Number(5)>>) >>

\* C33: the arguments of a call are evaluated with the bindings of the caller,
\* and the body of the callee in a frame that holds only the callee's own
\* parameters, so a parameter of the caller is never visible inside a function
\* it calls: with g = x, f(x) = g and no global x, f(5) fails with Unknown value
\* x.; with h(x) = f(x) + g(x, 3) the inner calls receive the x of h, h(5) = 25
C33_FramesScoped ==
    /\ (pc = "eval" => FramesScoped)
    /\ Final(CallerScope) => output = <<Unknown("x")>>
    /\ Final(TestFunctions) => output = <<Ok(20), Ok(4), Ok(6), Ok(25)>>
    /\ (program = TestFunctions /\ pc = "eval") =>
           \A i \in 4..Len(estack) :
               (IsBody(i) /\ IsBody(i - 2) /\ estack[i - 3].expression.name = "h")
                   => estack[i].frame.local_values[1] = 5

\* f(5) has failed with Unknown value x.: the x of f is not seen by g
C33_Witness == Final(CallerScope) /\ output = <<Unknown("x")>>

\* the body of g runs inside the body of f, called with 5, and has no local
C33_WitnessBody ==
    /\ program = CallerScope
    /\ pc = "eval"
    /\ Len(estack) = 3
    /\ IsBody(2)
    /\ IsBody(3)
    /\ estack[2].frame.local_values = <<5>>
    /\ estack[3].frame.local_names = <<>>

\* h(5): the body of g(x, 3) runs with x = 5 and y = 3
C33_WitnessInner ==
    /\ program = TestFunctions
    /\ pc = "eval"
    /\ \E i \in 3..Len(estack) :
           /\ IsBody(i)
           /\ IsBody(i - 2)
           /\ estack[i - 3].expression.name = "h"
           /\ estack[i].frame.local_names = <<"x", "y">>
           /\ estack[i].frame.local_values = <<5, 3>>

----------------------------------------------------------------------------
(* parameters and the Context, under Spec *)

\* the name of the Function node that runs is a parameter of its frame, used
\* without arguments
ReadsParameter ==
    /\ IsFunction
    /\ etop.expression.args = <<>>
    /\ \E i \in DOMAIN etop.frame.local_names :
           etop.frame.local_names[i] = etop.expression.name

\* the value bound to the first parameter of that name
BoundValue ==
    etop.frame.local_values[
        CHOOSE i \in DOMAIN etop.frame.local_names :
            /\ etop.frame.local_names[i] = etop.expression.name
            /\ \A j \in 1..(i - 1) : etop.frame.local_names[j] # etop.expression.name]

\* the step gives the bound value to the caller, whatever the Context holds
ParameterStep ==
    ReadsParameter =>
        /\ eres' = eres
        /\ Len(estack') = Len(estack) - 1
        /\ Last(estack').values = Append(estack[Len(estack) - 1].values, BoundValue)

\* the first program of ShadowPrograms
Shadowed ==
    << <<Text("x"), Op("="), Number(23)>>,
       Call("f", <<Text("x")>>) \o <<Op("="), Text("x"), Op("*"), Number(2)>>,
       Call("f", <<Number(10)>>),
       <<Text("x")>> >>

\* C34: inside a function body a name that equals a parameter of the function
\* denotes the bound argument value, even when the Context holds a user
\* function of that name, and evaluation never changes the Context: with
\* x = 23 and f(x) = x*2, f(10) is 20 and x evaluated afterwards is still 23
C34_ParameterShadows ==
    [][ /\ ParameterStep
        /\ (pc = "eval" \/ pc' = "eval") => (context' = context /\ defined' = defined)
        /\ (Final(Shadowed))' => output' = <<Ok(20), Ok(23)>> ]_vars

\* f(10) gave 20 and x gave 23
C34_Witness == Final(Shadowed) /\ output = <<Ok(20), Ok(23)>>

\* the body of f reads x = 10 while the Context holds the function x
C34_WitnessShadow ==
    /\ ReadsParameter
    /\ etop.expression.name = "x"
    /\ "x" \in DOMAIN context
    /\ BoundValue = 10

----------------------------------------------------------------------------
(* the binding of names in a function body, under Spec *)

\* f = g, f, g = 1, f, g = 2, f
Late ==
    << <<Text("f"), Op("="), Text("g")>>, <<Text("f")>>,
       <<Text("g"), Op("="), Number(1)>>, <<Text("f")>>,
       <<Text("g"), Op("="), Number(2)>>, <<Text("f")>> >>

\* g = 1, f = g, g = 2, f
Rebound ==
    << <<Text("g"), Op("="), Number(1)>>, <<Text("f"), Op("="), Text("g")>>,
       <<Text("g"), Op("="), Number(2)>>, <<Text("f")>> >>

\* the function a definition of name = body without parameters stores
Stored(name, body) == [name |-> name, function |-> [expression |-> body, args |-> <<>>]]

\* a call runs the body the Context holds for the name when the call is made
BodyStep ==
    (CallReady /\ etop.frame.recursion_count <= MAX_RECURSION) =>
        /\ Len(estack') = Len(estack) + 1
        /\ Last(estack').expression = context[etop.expression.name].expression

\* a definition stores the body as parse returned it and evaluates nothing
StoresBody ==
    (pc = "parsed" /\ context' # context) =>
        /\ output' = output
        /\ eres' = eres
        /\ estack' = estack
        /\ Last(defined').function.expression = Last(pres.value.value.args)

\* C35: a function body looks names up in the Context at the moment of each
\* evaluation, never at definition time: the definition f = g succeeds while g
\* is undefined, f then fails with Unknown value g., after g = 1 it gives 1, and
\* after g = 2 it gives 2 without f being defined again
C35_LateBinding ==
    /\ [][BodyStep /\ StoresBody]_vars
    /\ []((program = Late /\ pc = "main" /\ Len(input) = 5)
             => (output = <<>> /\ defined = <<Stored("f", Function("g", <<>>))>>))
    /\ []((program = Late /\ pc = "main" /\ Len(input) = 4) => output = <<Unknown("g")>>)
    /\ []((program = Late /\ pc = "main" /\ Len(input) = 2) => output = <<Unknown("g"), Ok(1)>>)
    /\ [](Final(Late)
             => /\ output = <<Unknown("g"), Ok(1), Ok(2)>>
                /\ defined = <<Stored("f", Function("g", <<>>)), Stored("g", Constant(1)),
                               Stored("g", Constant(2))>>)
    /\ [](Final(Rebound) => output = <<Ok(2)>>)

\* f has given Unknown value g., then 1, then 2
C35_Witness == Final(Late) /\ output = <<Unknown("g"), Ok(1), Ok(2)>>

\* f, defined after g = 1 and evaluated after g = 2, has given 2
C35_WitnessRebound == Final(Rebound) /\ output = <<Ok(2)>>

----------------------------------------------------------------------------
(* names of the registry and names of functions, under Spec *)

\* the name is an entry of the registry
IsBuiltin(name) == find_operator(name).some

\* no Function node of the tree has the name of a registry entry
NoBuiltinFunction(tree) ==
    \A node \in Nodes(tree) : node.kind = "Function" => ~IsBuiltin(node.name)

\* no function of the Context and none of its parameters is named like a
\* registry entry
ContextClean ==
    \A name \in DOMAIN context :
        /\ ~IsBuiltin(name)
        /\ \A i \in DOMAIN context[name].args : ~IsBuiltin(context[name].args[i])
        /\ NoBuiltinFunction(context[name].expression)

\* the one line l was no definition and has printed r
NotDefined(l, r) == Ran(l) => (output = <<r>> /\ defined = <<>> /\ DOMAIN context = {})

\* C36: no Function node that parse returns has the name of a registry entry,
\* so the Context never holds a function or a parameter named like a builtin:
\* e = 5, max(a,b) = 1 and f(pi) = 1 are no definitions and fail with Invalid
\* use of = operator. (max(a) = 1 and e(x) = 1 with the arity error of parse),
\* and the Context is left as it was
C36_NoBuiltinNames ==
    /\ (pc = "parsed" /\ pres.value.kind = "Ok") => NoBuiltinFunction(pres.value.value)
    /\ ContextClean
    /\ NotDefined(<<Text("e"), Op("="), Number(5)>>, InvalidUse("="))
    /\ NotDefined(Call("max", <<Text("a"), Text("b")>>) \o <<Op("="), Number(1)>>,
                  InvalidUse("="))
    /\ NotDefined(Call("f", <<Text("pi")>>) \o <<Op("="), Number(1)>>, InvalidUse("="))
    /\ NotDefined(Call("max", <<Text("a")>>) \o <<Op("="), Number(1)>>,
                  WrongArguments("max", 2, 1))
    /\ NotDefined(Call("e", <<Text("x")>>) \o <<Op("="), Number(1)>>,
                  WrongArguments("e", 0, 1))
    /\ Final(<< <<Text("f"), Op("="), Number(1)>>, <<Text("e"), Op("="), Number(5)>>,
                <<Text("f")>> >>)
           => /\ output = <<InvalidUse("="), Ok(1)>>
              /\ defined = <<[name |-> "f",
                              function |-> [expression |-> Constant(1), args |-> <<>>]]>>

\* e = 5 has failed with Invalid use of = operator.
C36_Witness == Ran(<<Text("e"), Op("="), Number(5)>>) /\ output = <<InvalidUse("=")>>

\* f(pi) = 1 is parsed: pi is an Operator node under the Function node f
C36_WitnessParameter ==
    /\ pc = "parsed"
    /\ program = << Call("f", <<Text("pi")>>) \o <<Op("="), Number(1)>> >>
    /\ pres = Some(Ok(Operator(Entry("="),
                               <<Function("f", <<Operator(Entry("pi"), <<>>)>>),
                                 Constant(1)>>)))

\* the Context holds functions, one of them with parameters
C36_WitnessContext ==
    \E name \in DOMAIN context : Len(context[name].args) = 2

----------------------------------------------------------------------------
(* nested ternaries, under SpecParse *)

\* a ? b : c as one node
Fused(a, b, c) == Operator(TERNARY, <<a, b, c>>)

\* the tree has a binary ? or : node
HasResidue(tree) ==
    \E node \in Nodes(tree) : node.kind = "Operator" /\ node.op.name \in {"?", ":"}

\* 1?3:5?7:9, the constants being numbered by their place in the line
FalseBranchLine ==
    <<Number(1), Op("?"), Number(3), Op(":"), Number(5), Op("?"), Number(7), Op(":"),
      Number(9)>>

\* 1?3?5:7:9
TrueBranchLine ==
    <<Number(1), Op("?"), Number(3), Op("?"), Number(5), Op(":"), Number(7), Op(":"),
      Number(9)>>

TrueBranchResidue ==
    /\ Parsed(TrueBranchLine)
    /\ Tree(Binary(Entry("?"), Constant(1),
                   Fused(Constant(3), Constant(5), Binary(Entry(":"), Constant(7), Constant(9)))))

\* 1?3:5?7:9 is parsed to the nested ternary
FalseBranchFused ==
    /\ Parsed(FalseBranchLine)
    /\ Tree(Fused(Constant(1), Constant(3), Fused(Constant(5), Constant(7), Constant(9))))

----------------------------------------------------------------------------
(* the commas of an argument list, under SpecParse *)

\* the parser of an argument is about to read a comma
ArgumentMeetsComma == InParseLoop /\ top.is_nested /\ tokens # <<>> /\ Head(tokens) = Text(",")

\* the comma is taken and closes the argument: an argument without a value
\* fails with unexpected end of input, any other goes to the list of the call
CommaClosesArgument ==
    ArgumentMeetsComma =>
        /\ tokens' = Tail(tokens)
        /\ Len(pstack') < Len(pstack)
        /\ IF ~top.parser.current.some
           THEN pc' = "parsed" /\ pres' = Some(InvalidExpression("unexpected end of input."))
           ELSE pc' = "parse" =>
                    /\ Len(pstack') = Len(pstack) - 1
                    /\ Len(Last(pstack').args) = Len(pstack[Len(pstack) - 1].args) + 1
                    /\ Front(Last(pstack').args) = pstack[Len(pstack) - 1].args

\* C38: in the argument list of a call each comma closes the argument before
\* it, which must not be empty: a comma after the last argument is accepted,
\* f(1,) giving the tree of f(1), an empty argument before a comma, as in f(,1)
\* and f(1,,2), fails with unexpected end of input, and f() has no argument
C38_Commas ==
    [][ /\ CommaClosesArgument
        /\ (Parsed(<<Text("f"), Op("("), Number(1), Text(","), Op(")")>>))'
               => pres' = Some(Ok(Function("f", <<Constant(1)>>)))
        /\ (Parsed(<<Text("f"), Op("("), Number(1), Op(")")>>))'
               => pres' = Some(Ok(Function("f", <<Constant(1)>>)))
        /\ (Parsed(<<Text("f"), Op("("), Number(1), Text(","), Number(2), Text(","), Op(")")>>))'
               => pres' = Some(Ok(Function("f", <<Constant(1), Constant(2)>>)))
        /\ (Parsed(<<Text("f"), Op("("), Text(","), Number(1), Op(")")>>))'
               => pres' = Some(InvalidExpression("unexpected end of input."))
        /\ (Parsed(<<Text("f"), Op("("), Number(1), Text(","), Text(","), Number(2), Op(")")>>))'
               => pres' = Some(InvalidExpression("unexpected end of input."))
        /\ (Parsed(<<Text("f"), Op("("), Text(","), Op(")")>>))'
               => pres' = Some(InvalidExpression("unexpected end of input."))
        /\ (Parsed(<<Text("f"), Op("("), Op(")")>>))'
               => pres' = Some(Ok(Function("f", <<>>)))
      ]_vars

\* f(1,) is parsed to f(1)
C38_Witness ==
    /\ Parsed(<<Text("f"), Op("("), Number(1), Text(","), Op(")")>>)
    /\ Tree(Function("f", <<Constant(1)>>))

\* f(1,,2) has failed at its second comma, the tokens 2 and ) unread
C38_WitnessEmpty ==
    /\ Parsed(<<Text("f"), Op("("), Number(1), Text(","), Text(","), Number(2), Op(")")>>)
    /\ Failed(InvalidExpression("unexpected end of input."))
    /\ tokens = <<Number(2), Op(")")>>

\* f() is parsed to a call without arguments
C38_WitnessNone ==
    /\ Parsed(<<Text("f"), Op("("), Op(")")>>)
    /\ Tree(Function("f", <<>>))

----------------------------------------------------------------------------
(* the tokenizer and its input, under Spec *)

\* longest sequence of calls of get and peek applied to a Tokenizer
MaxCalls == 3

\* the number of chars before the remainder of t
Got(t) == CHOOSE n \in 0..Len(t.input) : Bytes(t.input, n) = t.remainder.from

\* the remainder is the input without its first n chars
RemainderAfter(t, n) ==
    /\ t.remainder.from = Bytes(t.input, n)
    /\ t.remainder.len = Bytes(t.input, Len(t.input)) - Bytes(t.input, n)

RECURSIVE RemainderFollows(_, _, _)
\* after each call of the sequence (TRUE a get, FALSE a peek) on t, of which
\* get has returned the first n chars, the remainder is the input without the
\* chars get has returned, and both calls return the char that follows them
RemainderFollows(t, n, calls) ==
    IF calls = <<>>
    THEN TRUE
    ELSE LET r == IF Head(calls) THEN get(t) ELSE peek(t)
             following == IF n < Len(t.input) THEN Some(t.input[n + 1]) ELSE None
             m == IF Head(calls) /\ r.item.some THEN n + 1 ELSE n
         IN  /\ r.item = following
             /\ RemainderAfter(r.tokenizer, m)
             /\ RemainderFollows(r.tokenizer, m, Tail(calls))

\* every interleaving of at most MaxCalls calls of get and peek
Interleavings == UNION {[1..k -> BOOLEAN] : k \in 0..MaxCalls}

\* tests::get_and_peek: get, peek, peek, get, get, get, peek on abc
GetAndPeek ==
    RemainderFollows(new(<<"a", "b", "c">>), 0, <<TRUE, FALSE, FALSE, TRUE, TRUE, TRUE, FALSE>>)

\* the char starts neither a number, a bareword nor a quoted string and is no
\* whitespace: next gives it to read_operator
ReachesOperator(char) ==
    /\ ~is_whitespace(char)
    /\ ~is_ascii_digit(char)
    /\ char # "."
    /\ ~is_alphabetic(char)
    /\ char # "_"
    /\ char \notin {"\"", "'"}

\* every prefix of an operator name that read_operator can start on is the
\* name of an operator
PrefixesRegistered ==
    \A i \in DOMAIN OPERATORS :
        LET name == chars[OPERATORS[i].name] IN
        ReachesOperator(name[1]) =>
            \A k \in 1..Len(name) :
                \E j \in DOMAIN OPERATORS : chars[OPERATORS[j].name] = SubSeq(name, 1, k)

\* read_operator returns an operator or leaves the tokenizer as it found it
OperatorOrUntouched ==
    pc = "tokenize" =>
        LET p == peek(skip_whitespace(the_tokenizer)) IN
        (p.item.some /\ ReachesOperator(p.item.value)) =>
            LET r == read_operator(p.tokenizer) IN
            /\ r.result.kind = "Ok"
            /\ r.result.value.some \/ r.tokenizer = p.tokenizer

\* the number of whitespace chars at the head of s
RECURSIVE Blanks(_)
Blanks(s) == IF s # <<>> /\ is_whitespace(Head(s)) THEN 1 + Blanks(Tail(s)) ELSE 0

\* src is the source text of the token: the name of the operator, the text of
\* the bareword or of the single char, the text between the quotes, the
\* literal of the number or of the error
IsSourceOf(src, token, at_end) ==
    /\ src # <<>>
    /\ IF src[1] \in {"\"", "'"}
       THEN LET closed == Len(src) >= 2 /\ Last(src) = src[1]
                inner == IF closed THEN SubSeq(src, 2, Len(src) - 1) ELSE Tail(src)
            IN  /\ token = Text(Join(inner))
                /\ \A i \in DOMAIN inner : inner[i] # src[1]
                /\ closed \/ at_end
       ELSE /\ \A i \in DOMAIN src : ~is_whitespace(src[i])
            /\ CASE token.type = "Operator" -> chars[token.op.name] = src
                 [] token.type = "Text" -> token.text = Join(src)
                 [] token.type = "Err" ->
                        /\ is_ascii_digit(src[1]) \/ src[1] = "."
                        /\ Len(token.error) = 3
                           /\ token.error[1] = str("Invalid numeric constant '")
                               => token.error[2] = str(Join(src))
                 [] OTHER -> is_ascii_digit(src[1]) \/ src[1] = "."

\* a call of next takes the chars that follow those of the calls before it:
\* whitespace, then the source text of the token it returns; at the end of the
\* input it takes the whitespace that is left
TakesSource ==
    (pc = "tokenize" /\ the_tokenizer' # the_tokenizer) =>
        LET before == Got(the_tokenizer)
            after == Got(the_tokenizer')
            taken == SubSeq(the_tokenizer.input, before + 1, after)
            src == SubSeq(taken, Blanks(taken) + 1, Len(taken))
        IN  /\ the_tokenizer'.input = the_tokenizer.input
            /\ before <= after
            /\ RemainderAfter(the_tokenizer', after)
            /\ pc' # "aborted"
            /\ IF pc' = "tokenized"
               THEN src = <<>> /\ after = Len(the_tokenizer.input) /\ tokens' = tokens
               ELSE /\ Front(tokens') = tokens
                    /\ IsSourceOf(src, Last(tokens'), after = Len(the_tokenizer.input))

\* C39: the tokenizer never drops input: tokens come out in input order, and
\* every character that is neither whitespace between tokens nor a quote
\* delimiter belongs to the source text of exactly one token. read_operator
\* never consumes characters and then fails to return an operator, every
\* prefix of an operator name it can start on being an operator name; and the
\* remainder is the input without the characters get has returned, whatever
\* the interleaving of get and peek
C39_NoInputDropped ==
    /\ [][TakesSource]_vars
    /\ []OperatorOrUntouched
    /\ []PrefixesRegistered
    /\ []GetAndPeek
    /\ [](pc = "tokenize" =>
             \A calls \in Interleavings :
                 RemainderFollows(the_tokenizer, Got(the_tokenizer), calls))
    /\ [](pc = "tokenized" => Got(the_tokenizer) = Len(the_tokenizer.input))

\* >>>=: the operators >>> and = have been read, no char left behind
C39_Witness ==
    /\ pc = "tokenized"
    /\ the_tokenizer.input = <<"U+00E9", ">", ">", ">", "=", "U+00E9">>
    /\ tokens = <<Text("U+00E9"), Op(">>>"), Op("="), Text("U+00E9")>>

\* the single char @ follows the operator % as a Text of its own
C39_WitnessUnknown ==
    /\ pc = "tokenized"
    /\ the_tokenizer.input = <<"%", "@", "$">>
    /\ tokens = <<Op("%"), Text("@"), Text("$")>>

\* an unclosed quoted string has been read to the end of the input
C39_WitnessQuoted ==
    /\ pc = "tokenized"
    /\ the_tokenizer.input = <<"'", "x", " ", "1">>
    /\ tokens = <<Text("x 1")>>

====
